---- MODULE Spec2Model ----
(***************************************************************************)
(* A model of the four list containers of the repository:                  *)
(*   first.rs   List      singly linked, Box-owned nodes, i32 elements     *)
(*   second.rs  List<T>   the generic version, with three iterators        *)
(*   third.rs   List<T>   persistent list, Rc-shared nodes                 *)
(*   fourth.rs  List<T>   doubly linked deque, Rc<RefCell<Node>> links     *)
(* The containers share no state and never call each other.  A behaviour   *)
(* exercises one of them, chosen in Init (comp); each container's heap is  *)
(* a function from node ids to node records, a link is a node id or Empty. *)
(***************************************************************************)
EXTENDS Integers, Sequences, FiniteSets, TLC

\* Bounds of the model.
MaxNodes == 3       \* nodes a list of first.rs or second.rs, or the deque, may hold
MaxElem == 2        \* the values pushed are 1..MaxElem
MaxShared == 3      \* nodes the persistent lists may hold together
MaxLists == 3       \* persistent List values, and their Iter, alive at a time
MaxLive == 5        \* persistent List values, Iter and nodes alive together
MaxGuards == 2      \* borrow guards of the deque alive at a time

NodeIds == 1..MaxNodes
RcIds == 1..MaxShared
Elems == 1..MaxElem
Components == {"first", "second", "third", "fourth"}

\* Link::Empty of first.rs, None of the Option links of the other files.
Empty == 0

\* Option<T> as a return value.
None == << >>
Some(v) == << v >>

VARIABLES
    comp,    \* the container this behaviour exercises
    first,   \* first.rs: [head, nodes]
    second,  \* second.rs: [head, nodes]
    third,   \* third.rs: [lists, nodes, drop]
    fourth,  \* fourth.rs: [head, tail, nodes]
    iters,   \* the iterators over the container (see NoIters)
    guards,  \* the borrow guards of the deque that are alive (see NoGuards)
    dropping, \* the destructor of the list of first.rs, second.rs or fourth.rs
    op,      \* the last call made
    ret,     \* what it returned
    panic,   \* the last call panicked
    ghost    \* what the calls made so far amount to (see Ghost0)

vars == << comp, first, second, third, fourth, iters, guards, dropping, op, ret, panic, ghost >>

(***************************************************************************)
(* Box-owned nodes (first.rs, second.rs).                                  *)
(***************************************************************************)
FreeBox == [elem |-> 0, next |-> Empty, live |-> FALSE]

NoBoxes == [n \in NodeIds |-> FreeBox]

\* Box::new: the allocator hands out the lowest free slot.
NewBox(nodes) == CHOOSE n \in NodeIds : /\ ~nodes[n].live
                                        /\ \A m \in NodeIds : m < n => nodes[m].live

BoxesLive(nodes) == Cardinality({n \in NodeIds : nodes[n].live})

\* The elements met following next from link h, at most fuel nodes.
RECURSIVE ChainFrom(_, _, _)
ChainFrom(nodes, h, fuel) ==
    IF h = Empty \/ fuel = 0 THEN << >>
    ELSE << nodes[h].elem >> \o ChainFrom(nodes, nodes[h].next, fuel - 1)

Chain(l) == ChainFrom(l.nodes, l.head, MaxNodes + 1)

\* The nodes met following next from link h, at most fuel nodes.
RECURSIVE PathFrom(_, _, _)
PathFrom(nodes, h, fuel) ==
    IF h = Empty \/ fuel = 0 THEN << >>
    ELSE << h >> \o PathFrom(nodes, nodes[h].next, fuel - 1)

Path(l) == PathFrom(l.nodes, l.head, MaxNodes + 1)

(***************************************************************************)
(* first.rs                                                                *)
(***************************************************************************)
first_new == [head |-> Empty, nodes |-> NoBoxes]

\* push that does not hand the old head to the new node.
first_push_unlinked(l, elem) ==
    LET n == NewBox(l.nodes)
    IN  [head |-> n,
         nodes |-> [l.nodes EXCEPT ![n] = [elem |-> elem, next |-> Empty, live |-> TRUE]]]

first_push(l, elem) ==
    LET n == NewBox(l.nodes)
        old == l.head                      \* mem::replace(&mut self.head, Link::Empty)
        l1 == [l EXCEPT !.head = Empty]
        boxed == [elem |-> elem, next |-> old, live |-> TRUE]
    IN  [head |-> n, nodes |-> [l1.nodes EXCEPT ![n] = boxed]]

first_pop(l) ==
    LET taken == l.head                    \* mem::replace(&mut self.head, Link::Empty)
        l1 == [l EXCEPT !.head = Empty]
    IN  IF taken = Empty
        THEN [list |-> l1, ret |-> None]
        ELSE LET node == l1.nodes[taken]   \* let node = *boxed_node
             IN  [list |-> [head |-> node.next,
                            nodes |-> [l1.nodes EXCEPT ![taken] = FreeBox]],
                  ret |-> Some(node.elem)]

\* Dropping the Box of node x: the node is freed, and so is what its next owns.
RECURSIVE BoxDrop(_, _)
BoxDrop(nodes, x) ==
    IF x = Empty THEN nodes
    ELSE BoxDrop([nodes EXCEPT ![x] = FreeBox], nodes[x].next)

\* The destructor: phase is "none" before it runs, "loop" while it runs and
\* "done" when it has returned; cur is its local cur_link.
NoDropping == [phase |-> "none", cur |-> Empty]

\* let mut cur_link = mem::replace(&mut self.head, Link::Empty)
first_drop_begin(l) == [list |-> [l EXCEPT !.head = Empty], cur |-> l.head]

\* An iteration that leaves boxed_node.next in place.
first_drop_step_linked(l, cur) ==
    [list |-> [l EXCEPT !.nodes = BoxDrop(l.nodes, cur)], cur |-> Empty]

\* One iteration of the while let, cur the boxed_node matched.
first_drop_step(l, cur) ==
    LET next == l.nodes[cur].next          \* mem::replace(&mut boxed_node.next, Link::Empty)
        nodes0 == [l.nodes EXCEPT ![cur].next = Empty]
    IN  [list |-> [l EXCEPT !.nodes = BoxDrop(nodes0, cur)],   \* boxed_node dropped
         cur |-> next]

(***************************************************************************)
(* second.rs                                                               *)
(***************************************************************************)
second_new == [head |-> Empty, nodes |-> NoBoxes]

second_push(l, elem) ==
    LET n == NewBox(l.nodes)
        old == l.head                      \* self.head.take()
        l1 == [l EXCEPT !.head = Empty]
        boxed == [elem |-> elem, next |-> old, live |-> TRUE]
    IN  [l1 EXCEPT !.head = n, !.nodes[n] = boxed]

second_pop(l) ==
    LET taken == l.head                    \* self.head.take()
        l1 == [l EXCEPT !.head = Empty]
    IN  IF taken = Empty
        THEN [list |-> l1, ret |-> None]   \* map over None
        ELSE LET node == l1.nodes[taken]   \* let node = *node
             IN  [list |-> [l1 EXCEPT !.head = node.next, !.nodes[taken] = FreeBox],
                  ret |-> Some(node.elem)]

\* peek that takes the head out as pop does.
second_peek_taking(l) == second_pop(l)

\* peek: the list after the call and a view of the head's elem.
second_peek(l) ==
    [list |-> l,
     ret |-> IF l.head = Empty THEN None                      \* map over None
             ELSE Some(l.nodes[l.head].elem)]

\* peek_mut: as peek, and at is the node whose elem the &mut refers to.
second_peek_mut(l) ==
    [list |-> l,
     ret |-> IF l.head = Empty THEN None                      \* map over None
             ELSE Some(l.nodes[l.head].elem),
     at |-> l.head]

\* A write of v through the &mut that peek_mut returned.
WriteAt(l, at, v) == [l EXCEPT !.nodes[at].elem = v]

\* The sum of f over S.
RECURSIVE SumOver(_, _)
SumOver(f, S) ==
    IF S = {} THEN 0
    ELSE LET x == CHOOSE y \in S : TRUE IN f[x] + SumOver(f, S \ {x})

\* let mut cur_link = self.head.take()
second_drop_begin(l) == [list |-> [l EXCEPT !.head = Empty], cur |-> l.head]

\* One iteration of the while let, cur the boxed_node matched.
second_drop_step(l, cur) ==
    LET next == l.nodes[cur].next          \* boxed_node.next.take()
        nodes0 == [l.nodes EXCEPT ![cur].next = Empty]
    IN  [list |-> [l EXCEPT !.nodes = BoxDrop(nodes0, cur)],   \* boxed_node dropped
         cur |-> next]

(***************************************************************************)
(* Rc<RefCell<Node>> cells (fourth.rs).  rc is the strong count; borrow is *)
(* the RefCell flag: 0 unborrowed, k > 0 for k Ref guards, -1 for a RefMut.*)
(***************************************************************************)
FreeCell == [elem |-> 0, next |-> Empty, prev |-> Empty, rc |-> 0, borrow |-> 0]

NoCells == [n \in NodeIds |-> FreeCell]

CellsLive(nodes) == Cardinality({n \in NodeIds : nodes[n].rc > 0})

\* Rc::new in Node::new: the lowest free slot, one strong reference, links absent.
NewCell(nodes) == CHOOSE n \in NodeIds : /\ nodes[n].rc = 0
                                         /\ \A m \in NodeIds : m < n => nodes[m].rc > 0

Node_new(elem) == [elem |-> elem, next |-> Empty, prev |-> Empty, rc |-> 1, borrow |-> 0]

\* Dropping one Rc handle to x (x may be None): the count goes down, and the last
\* handle drops the node, that is its next and prev handles, and frees the cell.
RECURSIVE RcDrop(_, _)
RcDrop(nodes, x) ==
    IF x = Empty THEN nodes
    ELSE IF nodes[x].rc > 1 THEN [nodes EXCEPT ![x].rc = @ - 1]
    ELSE LET n == nodes[x]
             freed == [nodes EXCEPT ![x] = FreeCell]
         IN  RcDrop(RcDrop(freed, n.next), n.prev)

\* Rc::clone of a link.
RcClone(nodes, x) == IF x = Empty THEN nodes ELSE [nodes EXCEPT ![x].rc = @ + 1]

\* RefCell::borrow_mut panics unless the cell is unborrowed.
CanBorrowMut(nodes, x) == nodes[x].borrow = 0

(***************************************************************************)
(* fourth.rs.  Each operation yields the list after it, the value returned *)
(* and whether it panicked (then the list after its locals were dropped).  *)
(***************************************************************************)
fourth_new == [head |-> Empty, tail |-> Empty, nodes |-> NoCells]

Done4(l, r) == [list |-> l, ret |-> r, panic |-> FALSE]
Panic4(l) == [list |-> l, ret |-> None, panic |-> TRUE]

\* push_front that leaves the tail of an empty list unset.
fourth_push_front_headonly(l, elem) ==
    LET n == NewCell(l.nodes)
        nodes0 == [l.nodes EXCEPT ![n] = Node_new(elem)]
        old == l.head
        l0 == [l EXCEPT !.head = Empty, !.nodes = nodes0]
    IN  IF old # Empty
        THEN LET nodes1 == [RcClone(nodes0, n) EXCEPT ![old].prev = n]
             IN  Done4([l0 EXCEPT !.head = n, !.nodes = [nodes1 EXCEPT ![n].next = old]], None)
        ELSE Done4([l0 EXCEPT !.head = n], None)

\* push_front that sets the tail of an empty list without cloning the handle.
fourth_push_front_unshared(l, elem) ==
    LET n == NewCell(l.nodes)
        nodes0 == [l.nodes EXCEPT ![n] = Node_new(elem)]
        old == l.head
        l0 == [l EXCEPT !.head = Empty, !.nodes = nodes0]
    IN  IF old # Empty
        THEN LET nodes1 == [RcClone(nodes0, n) EXCEPT ![old].prev = n]
             IN  Done4([l0 EXCEPT !.head = n, !.nodes = [nodes1 EXCEPT ![n].next = old]], None)
        ELSE Done4([l0 EXCEPT !.tail = n, !.head = n], None)

fourth_push_front(l, elem) ==
    LET n == NewCell(l.nodes)
        nodes0 == [l.nodes EXCEPT ![n] = Node_new(elem)]      \* let new_head
        old == l.head                                         \* self.head.take()
        l0 == [l EXCEPT !.head = Empty, !.nodes = nodes0]
    IN  IF old # Empty
        THEN IF ~CanBorrowMut(nodes0, old)
             THEN Panic4([l0 EXCEPT !.nodes = RcDrop(RcDrop(nodes0, n), old)])
             ELSE LET was == nodes0[old].prev
                      \* old_head.borrow_mut().prev = Some(new_head.clone())
                      nodes1 == RcDrop([RcClone(nodes0, n) EXCEPT ![old].prev = n], was)
                      \* new_head.borrow_mut().next = Some(old_head)
                      nodes2 == [nodes1 EXCEPT ![n].next = old]
                  IN  Done4([l0 EXCEPT !.head = n, !.nodes = nodes2], None)
        ELSE LET was == l0.tail
                 \* self.tail = Some(new_head.clone())
                 nodes1 == RcDrop(RcClone(nodes0, n), was)
             IN  Done4([l0 EXCEPT !.tail = n, !.head = n, !.nodes = nodes1], None)

\* Rc::try_unwrap(x).ok().unwrap().into_inner().elem, the rest of the node dropped.
TryUnwrapElem(l, x) ==
    IF l.nodes[x].rc = 1
    THEN LET node == l.nodes[x]
             freed == [l.nodes EXCEPT ![x] = FreeCell]
         IN  Done4([l EXCEPT !.nodes = RcDrop(RcDrop(freed, node.next), node.prev)],
                   Some(node.elem))
    ELSE Panic4([l EXCEPT !.nodes = RcDrop(l.nodes, x)])

\* pop_front that leaves the new head's prev in place.
fourth_pop_front_detach_linked(l0, old) ==
    LET new == l0.nodes[old].next
        nodes0 == [l0.nodes EXCEPT ![old].next = Empty]
    IN  IF new # Empty
        THEN [l0 EXCEPT !.head = new, !.nodes = nodes0]
        ELSE [l0 EXCEPT !.tail = Empty, !.nodes = RcDrop(nodes0, l0.tail)]

\* The match in pop_front's closure when its borrow_mut calls succeed: the list
\* on which Rc::try_unwrap(old_head) is then called.
fourth_pop_front_detach(l0, old) ==
    LET new == l0.nodes[old].next                             \* .next.take()
        \* the RefMut of old_head lives to the end of the match
        nodes0 == [l0.nodes EXCEPT ![old].next = Empty, ![old].borrow = -1]
    IN  IF new # Empty
        THEN LET back == nodes0[new].prev                     \* new_head.borrow_mut().prev.take()
                 nodes1 == RcDrop([nodes0 EXCEPT ![new].prev = Empty], back)
                 nodes2 == [nodes1 EXCEPT ![old].borrow = 0]
             IN  [l0 EXCEPT !.head = new, !.nodes = nodes2]   \* self.head = Some(new_head)
        ELSE LET t == l0.tail                                 \* self.tail.take()
                 nodes1 == RcDrop(nodes0, t)
                 nodes2 == [nodes1 EXCEPT ![old].borrow = 0]
             IN  [l0 EXCEPT !.tail = Empty, !.nodes = nodes2]

\* The closure pop_front maps over the taken head.
fourth_pop_front_some(l0, old) ==
    IF ~CanBorrowMut(l0.nodes, old)
    THEN Panic4([l0 EXCEPT !.nodes = RcDrop(l0.nodes, old)])
    ELSE LET new == l0.nodes[old].next                        \* .next.take()
             \* the RefMut of old_head lives to the end of the match
             nodes0 == [l0.nodes EXCEPT ![old].next = Empty, ![old].borrow = -1]
         IN  IF new # Empty
             THEN IF ~CanBorrowMut(nodes0, new)
                  THEN Panic4([l0 EXCEPT !.nodes =
                           RcDrop([RcDrop(nodes0, new) EXCEPT ![old].borrow = 0], old)])
                  ELSE TryUnwrapElem(fourth_pop_front_detach(l0, old), old)
             ELSE TryUnwrapElem(fourth_pop_front_detach(l0, old), old)

fourth_pop_front(l) ==
    LET old == l.head                                         \* self.head.take()
        l0 == [l EXCEPT !.head = Empty]
    IN  IF old = Empty THEN Done4(l0, None) ELSE fourth_pop_front_some(l0, old)

\* Dropping the List's two fields and nothing else.
fourth_drop_fields(l) ==
    Done4([l EXCEPT !.head = Empty, !.tail = Empty,
                    !.nodes = RcDrop(RcDrop(l.nodes, l.head), l.tail)], None)

\* Drop for List<T>: one turn of while self.pop_front().is_some() {}
fourth_drop_step(l) == fourth_pop_front(l)

fourth_push_back_as_front(l, elem) == fourth_push_front(l, elem)

\* push_back that leaves old_tail.next as it was.
fourth_push_back_unlinked(l, elem) ==
    LET n == NewCell(l.nodes)
        nodes0 == [l.nodes EXCEPT ![n] = Node_new(elem)]
        old == l.tail
        l0 == [l EXCEPT !.tail = Empty, !.nodes = nodes0]
    IN  IF old # Empty
        THEN Done4([l0 EXCEPT !.tail = n, !.nodes = [nodes0 EXCEPT ![n].prev = old]], None)
        ELSE Done4([l0 EXCEPT !.head = n, !.tail = n, !.nodes = RcClone(nodes0, n)], None)

\* push_back that drops the old tail instead of storing it in new_tail.prev.
fourth_push_back_oneway(l, elem) ==
    LET n == NewCell(l.nodes)
        nodes0 == [l.nodes EXCEPT ![n] = Node_new(elem)]
        old == l.tail
        l0 == [l EXCEPT !.tail = Empty, !.nodes = nodes0]
    IN  IF old # Empty
        THEN LET nodes1 == [RcClone(nodes0, n) EXCEPT ![old].next = n]
             IN  Done4([l0 EXCEPT !.tail = n, !.nodes = RcDrop(nodes1, old)], None)
        ELSE Done4([l0 EXCEPT !.head = n, !.tail = n, !.nodes = RcClone(nodes0, n)], None)

fourth_push_back(l, elem) ==
    LET n == NewCell(l.nodes)
        nodes0 == [l.nodes EXCEPT ![n] = Node_new(elem)]      \* let new_tail
        old == l.tail                                         \* self.tail.take()
        l0 == [l EXCEPT !.tail = Empty, !.nodes = nodes0]
    IN  IF old # Empty
        THEN IF ~CanBorrowMut(nodes0, old)
             THEN Panic4([l0 EXCEPT !.nodes = RcDrop(RcDrop(nodes0, n), old)])
             ELSE LET was == nodes0[old].next
                      \* old_tail.borrow_mut().next = Some(new_tail.clone())
                      nodes1 == RcDrop([RcClone(nodes0, n) EXCEPT ![old].next = n], was)
                      \* new_tail.borrow_mut().prev = Some(old_tail)
                      nodes2 == [nodes1 EXCEPT ![n].prev = old]
                  IN  Done4([l0 EXCEPT !.tail = n, !.nodes = nodes2], None)
        ELSE LET was == l0.head
                 \* self.head = Some(new_tail.clone())
                 nodes1 == RcDrop(RcClone(nodes0, n), was)
             IN  Done4([l0 EXCEPT !.head = n, !.tail = n, !.nodes = nodes1], None)

\* pop_back whose emptying branch leaves the head field as it is.
fourth_pop_back_detach_headed(l0, old) ==
    LET new == l0.nodes[old].prev
        nodes0 == [l0.nodes EXCEPT ![old].prev = Empty]
    IN  IF new # Empty
        THEN [l0 EXCEPT !.tail = new,
                        !.nodes = RcDrop([nodes0 EXCEPT ![new].next = Empty],
                                         nodes0[new].next)]
        ELSE [l0 EXCEPT !.nodes = nodes0]

\* The match in pop_back's closure when its borrow_mut calls succeed: the list
\* on which Rc::try_unwrap(old_tail) is then called.
fourth_pop_back_detach(l0, old) ==
    LET new == l0.nodes[old].prev                             \* .prev.take()
        nodes0 == [l0.nodes EXCEPT ![old].prev = Empty, ![old].borrow = -1]
    IN  IF new # Empty
        THEN LET fwd == nodes0[new].next                      \* new_tail.borrow_mut().next.take()
                 nodes1 == RcDrop([nodes0 EXCEPT ![new].next = Empty], fwd)
                 nodes2 == [nodes1 EXCEPT ![old].borrow = 0]
             IN  [l0 EXCEPT !.tail = new, !.nodes = nodes2]   \* self.tail = Some(new_tail)
        ELSE LET h == l0.head                                 \* self.head.take()
                 nodes1 == RcDrop(nodes0, h)
                 nodes2 == [nodes1 EXCEPT ![old].borrow = 0]
             IN  [l0 EXCEPT !.head = Empty, !.nodes = nodes2]

\* The closure pop_back maps over the taken tail.
fourth_pop_back_some(l0, old) ==
    IF ~CanBorrowMut(l0.nodes, old)
    THEN Panic4([l0 EXCEPT !.nodes = RcDrop(l0.nodes, old)])
    ELSE LET new == l0.nodes[old].prev                        \* .prev.take()
             nodes0 == [l0.nodes EXCEPT ![old].prev = Empty, ![old].borrow = -1]
         IN  IF new # Empty
             THEN IF ~CanBorrowMut(nodes0, new)
                  THEN Panic4([l0 EXCEPT !.nodes =
                           RcDrop([RcDrop(nodes0, new) EXCEPT ![old].borrow = 0], old)])
                  ELSE TryUnwrapElem(fourth_pop_back_detach(l0, old), old)
             ELSE TryUnwrapElem(fourth_pop_back_detach(l0, old), old)

\* pop_back that unwraps the taken tail instead of mapping over it.
fourth_pop_back_unwrap(l) ==
    IF l.tail = Empty THEN Panic4(l)
    ELSE fourth_pop_back_some([l EXCEPT !.tail = Empty], l.tail)

fourth_pop_back(l) ==
    LET old == l.tail                                         \* self.tail.take()
        l0 == [l EXCEPT !.tail = Empty]
    IN  IF old = Empty THEN Done4(l0, None) ELSE fourth_pop_back_some(l0, old)

(***************************************************************************)
(* Borrow guards of fourth.rs.  refs[x] is the number of Ref guards on     *)
(* node x that are alive, mut the node a live RefMut guard borrows and end *)
(* the method that made it.  A guard passed to mem::forget is no longer    *)
(* alive, and the flag of its RefCell stays as the guard set it.           *)
(***************************************************************************)
NoGuards == [refs |-> [n \in NodeIds |-> 0], mut |-> Empty, end |-> "none"]

\* RefCell::borrow panics while the cell is mutably borrowed.
CanBorrow(nodes, x) == nodes[x].borrow >= 0

\* peek_front that takes its guard whatever the flag says.
fourth_peek_front_unchecked(l) ==
    IF l.head = Empty THEN Done4(l, None)
    ELSE Done4([l EXCEPT !.nodes[l.head].borrow = IF @ < 0 THEN @ ELSE @ + 1],
               Some(l.nodes[l.head].elem))

\* peek_front: with Some, a Ref guard on the head node is alive afterwards.
fourth_peek_front(l) ==
    IF l.head = Empty THEN Done4(l, None)                     \* map over None
    ELSE IF ~CanBorrow(l.nodes, l.head) THEN Panic4(l)        \* node.borrow()
    ELSE Done4([l EXCEPT !.nodes[l.head].borrow = @ + 1], Some(l.nodes[l.head].elem))

fourth_peek_back(l) ==
    IF l.tail = Empty THEN Done4(l, None)
    ELSE IF ~CanBorrow(l.nodes, l.tail) THEN Panic4(l)
    ELSE Done4([l EXCEPT !.nodes[l.tail].borrow = @ + 1], Some(l.nodes[l.tail].elem))

\* iter that takes its Ref whatever the flag says.
fourth_iter_unchecked(l) ==
    IF l.head = Empty THEN Done4(l, None)
    ELSE Done4([l EXCEPT !.nodes[l.head].borrow = IF @ < 0 THEN @ ELSE @ + 1], None)

\* iter: the Iter made holds a Ref guard on the head node, if there is one.
fourth_iter(l) ==
    IF l.head = Empty THEN Done4(l, None)                     \* map over None
    ELSE IF ~CanBorrow(l.nodes, l.head) THEN Panic4(l)        \* head.borrow()
    ELSE Done4([l EXCEPT !.nodes[l.head].borrow = @ + 1], None)

\* peek_back_mut: with Some, a RefMut guard on the tail node is alive afterwards.
fourth_peek_back_mut(l) ==
    IF l.tail = Empty THEN Done4(l, None)
    ELSE IF ~CanBorrowMut(l.nodes, l.tail) THEN Panic4(l)     \* node.borrow_mut()
    ELSE Done4([l EXCEPT !.nodes[l.tail].borrow = -1], Some(l.nodes[l.tail].elem))

fourth_peek_front_mut(l) ==
    IF l.head = Empty THEN Done4(l, None)
    ELSE IF ~CanBorrowMut(l.nodes, l.head) THEN Panic4(l)
    ELSE Done4([l EXCEPT !.nodes[l.head].borrow = -1], Some(l.nodes[l.head].elem))

\* *guard = v through a RefMut guard on node x.
RefMut_write_lost(l, x, v) == l

RefMut_write(l, x, v) == [l EXCEPT !.nodes[x].elem = v]

\* The guards' destructors.
Ref_drop(l, x) == [l EXCEPT !.nodes[x].borrow = @ - 1]

\* A RefMut destructor that leaves the flag as it is.
RefMut_drop_kept(l, x) == l

RefMut_drop(l, x) == [l EXCEPT !.nodes[x].borrow = 0]

\* The guards alive.
GuardsLive(g) == SumOver(g.refs, NodeIds) + (IF g.mut = Empty THEN 0 ELSE 1)

(***************************************************************************)
(* Iterators.  into: the List has been moved into an IntoIter (second.rs,  *)
(* fourth.rs).  iter: the Iter of second.rs or third.rs, a cursor next     *)
(* into the list borrowed (of: that list's head).  mut: the IterMut of     *)
(* second.rs with its cursor, and out, the nodes whose elem it has handed  *)
(* out as &mut, in the order handed out; the borrows live as long as the   *)
(* borrow of the list that iter_mut took.                                  *)
(***************************************************************************)
NoIter == [live |-> FALSE, of |-> Empty, next |-> Empty]

NoIterMut == [live |-> FALSE, next |-> Empty, out |-> << >>]

NoIters == [into |-> FALSE, iter |-> NoIter, mut |-> NoIterMut]

\* second.rs: IntoIter(self), and IntoIter::next
second_into_iter(its) == [its EXCEPT !.into = TRUE]

\* next that hands out the head's element and leaves it in the list.
second_IntoIter_next_keep(l) ==
    [list |-> l, ret |-> IF l.head = Empty THEN None ELSE Some(l.nodes[l.head].elem)]

second_IntoIter_next(l) == second_pop(l)

\* second.rs: iter, and Iter::next on the cursor
second_iter(l) == [live |-> TRUE, of |-> l.head, next |-> l.head]

\* next that does not move the cursor.
second_Iter_next_stay(l, it) ==
    IF it.next = Empty THEN [iter |-> it, ret |-> None]
    ELSE [iter |-> it, ret |-> Some(l.nodes[it.next].elem)]

second_Iter_next(l, it) ==
    IF it.next = Empty THEN [iter |-> it, ret |-> None]       \* map over None
    ELSE LET node == l.nodes[it.next]
         IN  [iter |-> [it EXCEPT !.next = node.next], ret |-> Some(node.elem)]

\* second.rs: iter_mut, and IterMut::next
second_iter_mut(l) == [live |-> TRUE, next |-> l.head, out |-> << >>]

\* next that maps over the cursor without taking it.
second_IterMut_next_untaken(l, it) ==
    IF it.next = Empty THEN [iter |-> it, ret |-> None]
    ELSE [iter |-> [it EXCEPT !.out = Append(@, it.next)],
          ret |-> Some(l.nodes[it.next].elem)]

second_IterMut_next(l, it) ==
    LET taken == it.next                                      \* self.next.take()
        it0 == [it EXCEPT !.next = Empty]
    IN  IF taken = Empty THEN [iter |-> it0, ret |-> None]
        ELSE LET node == l.nodes[taken]
             IN  [iter |-> [it0 EXCEPT !.next = node.next, !.out = Append(@, taken)],
                  ret |-> Some(node.elem)]

\* A write through the k-th &mut handed out.
WriteElem(l, it, k, v) == [l EXCEPT !.nodes[it.out[k]].elem = v]

\* fourth.rs: IntoIter(self), Iterator::next and DoubleEndedIterator::next_back
fourth_into_iter(its) == [its EXCEPT !.into = TRUE]

fourth_IntoIter_next(l) == fourth_pop_front(l)

fourth_IntoIter_next_back_as_next(l) == fourth_pop_front(l)

fourth_IntoIter_next_back(l) == fourth_pop_back(l)

(***************************************************************************)
(* third.rs.  Several List<T> values share Rc<Node<T>> nodes; rc is a      *)
(* node's strong count.  A List is nothing but its head link and no method *)
(* but drop changes it, so the List values alive are kept as a bag: lists  *)
(* gives, for each link, how many live List values have it as their head.  *)
(* drop is the destructor's position: on while a List is being dropped,    *)
(* cur its cur_list handle.                                                *)
(***************************************************************************)
FreeRc == [elem |-> 0, next |-> Empty, rc |-> 0]

Links == RcIds \cup {Empty}

NoDrop == [on |-> FALSE, cur |-> Empty]

third_none == [lists |-> [h \in Links |-> 0],
               nodes |-> [n \in RcIds |-> FreeRc],
               drop |-> NoDrop]

\* The number of List values alive, the one being dropped included.
ListsLive(t) == SumOver(t.lists, Links) + (IF t.drop.on THEN 1 ELSE 0)

RcsLive(nodes) == Cardinality({n \in RcIds : nodes[n].rc > 0})

\* Rc::new: the lowest free slot.
NewRc(nodes) == CHOOSE n \in RcIds : /\ nodes[n].rc = 0
                                       /\ \A m \in RcIds : m < n => nodes[m].rc > 0

\* Rc::clone of a link.
RcClone3(nodes, x) == IF x = Empty THEN nodes ELSE [nodes EXCEPT ![x].rc = @ + 1]

\* Dropping one Rc handle to x: the last handle drops the node and with it the
\* node's own next handle.
RECURSIVE RcDrop3(_, _)
RcDrop3(nodes, x) ==
    IF x = Empty THEN nodes
    ELSE IF nodes[x].rc > 1 THEN [nodes EXCEPT ![x].rc = @ - 1]
    ELSE RcDrop3([nodes EXCEPT ![x] = FreeRc], nodes[x].next)

\* List { head: None }
third_new(t) == [t EXCEPT !.lists[Empty] = @ + 1]

\* append whose new node has no successor.
third_append_unlinked(t, h, elem) ==
    LET n == NewRc(t.nodes)
    IN  [t EXCEPT !.nodes[n] = [elem |-> elem, next |-> Empty, rc |-> 1],
                  !.lists[n] = 1]

\* append that links the new node to a copy of the receiver's head node.
third_append_copy(t, h, elem) ==
    LET n == NewRc(t.nodes)
        free == {c \in RcIds \ {n} : t.nodes[c].rc = 0}
    IN  IF h = Empty \/ free = {}
        THEN [t EXCEPT !.nodes = [RcClone3(t.nodes, h) EXCEPT
                                     ![n] = [elem |-> elem, next |-> h, rc |-> 1]],
                       !.lists[n] = 1]
        ELSE LET c == CHOOSE c \in free : TRUE
                 nodes0 == RcClone3(t.nodes, t.nodes[h].next)
             IN  [t EXCEPT !.nodes = [nodes0 EXCEPT
                                         ![c] = [t.nodes[h] EXCEPT !.rc = 1],
                                         ![n] = [elem |-> elem, next |-> c, rc |-> 1]],
                           !.lists[n] = 1]

\* append on a List whose head is h.
third_append(t, h, elem) ==
    LET n == NewRc(t.nodes)
        nodes0 == RcClone3(t.nodes, h)                        \* self.head.clone()
    IN  [t EXCEPT !.nodes = [nodes0 EXCEPT ![n] = [elem |-> elem, next |-> h, rc |-> 1]],
                  !.lists[n] = 1]

\* tail that clones the head itself.
third_tail_same(t, h) ==
    [t EXCEPT !.nodes = RcClone3(t.nodes, h), !.lists[h] = @ + 1]

\* tail that copies the next handle without counting it.
third_tail_uncounted(t, h) ==
    LET next == IF h = Empty THEN Empty ELSE t.nodes[h].next
    IN  [t EXCEPT !.lists[next] = @ + 1]

\* tail on a List whose head is h.
third_tail(t, h) ==
    \* self.head.as_ref().and_then(|node| node.next.clone())
    LET next == IF h = Empty THEN Empty ELSE t.nodes[h].next
    IN  [t EXCEPT !.nodes = RcClone3(t.nodes, next), !.lists[next] = @ + 1]

\* head on a List whose head is h.
third_head(t, h) == IF h = Empty THEN None ELSE Some(t.nodes[h].elem)

\* iter on a List whose head is h, and Iter::next
third_iter(t, h) == [live |-> TRUE, of |-> h, next |-> h]

third_Iter_next(t, it) ==
    IF it.next = Empty THEN [iter |-> it, ret |-> None]       \* map over None
    ELSE LET node == t.nodes[it.next]
         IN  [iter |-> [it EXCEPT !.next = node.next], ret |-> Some(node.elem)]

\* The elements of a List whose head is h, front first.
Elements3(t, h) == ChainFrom(t.nodes, h, MaxShared + 1)

\* Drop::drop on a List whose head is h, a step at a time: the head is stolen ...
third_drop_begin(t, h) ==
    [t EXCEPT !.drop = [on |-> TRUE, cur |-> h],              \* self.head.take()
              !.lists[h] = @ - 1]

\* A turn that drops the node while nothing else holds its successor.
third_drop_step_unheld(t) ==
    [t EXCEPT !.drop.cur = Empty, !.nodes = RcDrop3(t.nodes, t.drop.cur)]

\* A loop that frees every node it visits, whatever its count.
third_drop_step_free(t) ==
    [t EXCEPT !.drop.cur = t.nodes[t.drop.cur].next,
              !.nodes[t.drop.cur] = FreeRc]

\* A loop that ends at the first node another handle holds.
third_drop_step_stop(t) ==
    LET node == t.drop.cur
    IN  IF t.nodes[node].rc > 1
        THEN [t EXCEPT !.drop.cur = Empty, !.nodes = RcDrop3(t.nodes, node)]
        ELSE [t EXCEPT !.drop.cur = t.nodes[node].next,
                       !.nodes = RcDrop3(RcClone3(t.nodes, t.nodes[node].next), node)]

\* ... each turn of the loop clones the node's next and drops the node's handle ...
third_drop_step(t) ==
    LET node == t.drop.cur
        next == t.nodes[node].next                            \* node.next.clone()
    IN  [t EXCEPT !.drop.cur = next,
                  !.nodes = RcDrop3(RcClone3(t.nodes, next), node)]

\* ... and when cur_list is None the List value is gone.
third_drop_end(t) == [t EXCEPT !.drop = NoDrop]

(***************************************************************************)
(* The abstract sequence the calls are checked against (ghost.abs, front   *)
(* first; ghost.want, the value the abstract operation returns), and what  *)
(* the history of calls looked like:                                       *)
(*   used  some push has been made;                                        *)
(*   idle  the number of pops in a row made on the empty container (2      *)
(*         stands for two or more);                                        *)
(*   fifo  the run of calls since the deque was last empty, as long as it  *)
(*         is push_back* pop_front* or push_front* pop_back*: the values   *)
(*         pushed (in) and the results of the pops (out);                  *)
(*   tails the number of tail() calls made in a row on the persistent      *)
(*         lists, and past how many of them, in a row up to the last, were *)
(*         made on an empty list (2 stands for two or more), both counted  *)
(*         while no Iter is alive;                                         *)
(*   snap  the elements the list held when the current Iter or IntoIter    *)
(*         was made or the destructor called, front first; calls the number of next() calls and     *)
(*         backs the number of next_back() calls made on the current       *)
(*         iterator while they were fewer than its list had elements, and  *)
(*         over the number of calls made in a row since (2 stands for two  *)
(*         or more);                                                       *)
(*   runs  the number of iter() calls made on the exclusive list since it  *)
(*         was last modified (2 stands for two or more);                   *)
(*   wrote the end of the deque last written through a RefMut guard and    *)
(*         the value written, kept until the call after the next peek, or  *)
(*         the next push or pop; seen tells that this peek was made;       *)
(*   steps the number of iterations the destructor's loop has made;        *)
(*   walk  the number of nodes on the chain of the persistent list being   *)
(*         dropped, when its destructor was called;                        *)
(*   kept  the number of iterations of that destructor that left their     *)
(*         node allocated;                                                 *)
(*   leaks the number of RefMut guards of the deque passed to mem::forget; *)
(*   leaked the node whose RefMut guard was passed to mem::forget;         *)
(*         the behaviours modelled leak at most one.                       *)
(***************************************************************************)
Min(a, b) == IF a < b THEN a ELSE b

NoRun == [mode |-> "none", in |-> << >>, out |-> << >>]

NoWrite == [end |-> "none", v |-> 0, seen |-> FALSE]

Ghost0 == [abs |-> << >>, want |-> None, used |-> FALSE, idle |-> 0, fifo |-> NoRun,
           tails |-> 0, past |-> 0, snap |-> << >>, calls |-> 0, backs |-> 0, over |-> 0,
           runs |-> 0, wrote |-> NoWrite, leaks |-> 0, leaked |-> Empty,
           steps |-> 0,
           walk |-> 0, kept |-> 0]

\* A new iterator over the elements s.
Started(g, s) ==
    [g EXCEPT !.snap = s, !.calls = 0, !.backs = 0, !.over = 0,
              !.want = None, !.idle = 0, !.fifo = NoRun]

\* The iterator is dropped.
Ended(g) == [g EXCEPT !.snap = << >>, !.calls = 0, !.backs = 0, !.over = 0]

\* The destructor is called on a list of the elements g.abs and empties it.
Dropped(g) == [Started(g, g.abs) EXCEPT !.abs = << >>, !.runs = 0, !.wrote = NoWrite]

\* One more iter() on the list.
Rerun(g) == [g EXCEPT !.runs = Min(2, @ + 1)]

\* One more next() on an iterator over n elements, and one more next_back().
Called(g, n) ==
    IF g.calls + g.backs < n THEN [g EXCEPT !.calls = @ + 1]
    ELSE [g EXCEPT !.over = Min(2, @ + 1)]

CalledBack(g, n) ==
    IF g.calls + g.backs < n THEN [g EXCEPT !.backs = @ + 1]
    ELSE [g EXCEPT !.over = Min(2, @ + 1)]

FifoPush(g, fill, v) ==
    IF g.abs = << >> THEN [mode |-> fill, in |-> << v >>, out |-> << >>]
    ELSE IF g.fifo.mode = fill THEN [g.fifo EXCEPT !.in = Append(@, v)]
    ELSE NoRun

FifoPop(g, fill, drain, r) ==
    IF g.fifo.mode \in {fill, drain} /\ Len(g.fifo.out) < Len(g.fifo.in)
    THEN [g.fifo EXCEPT !.mode = drain, !.out = Append(@, r)]
    ELSE NoRun

AbsPush(g, v) ==
    [g EXCEPT !.abs = << v >> \o g.abs, !.want = None, !.used = TRUE, !.idle = 0, !.runs = 0,
              !.wrote = NoWrite,
              !.fifo = FifoPush(g, "fill_front", v)]

AbsPushBack(g, v) ==
    [g EXCEPT !.abs = Append(g.abs, v), !.want = None, !.used = TRUE, !.idle = 0, !.runs = 0,
              !.wrote = NoWrite,
              !.fifo = FifoPush(g, "fill_back", v)]

\* r is what the code returned, recorded in the run.
AbsPop(g, r) ==
    IF g.abs = << >>
    THEN [g EXCEPT !.want = None, !.idle = Min(2, @ + 1), !.fifo = NoRun, !.wrote = NoWrite]
    ELSE [g EXCEPT !.abs = Tail(g.abs), !.want = Some(Head(g.abs)), !.runs = 0,
                   !.wrote = NoWrite,
                   !.fifo = FifoPop(g, "fill_back", "drain_front", r)]

AbsPopBack(g, r) ==
    IF g.abs = << >>
    THEN [g EXCEPT !.want = None, !.idle = Min(2, @ + 1), !.fifo = NoRun, !.wrote = NoWrite]
    ELSE [g EXCEPT !.abs = SubSeq(g.abs, 1, Len(g.abs) - 1), !.runs = 0,
                   !.wrote = NoWrite,
                   !.want = Some(g.abs[Len(g.abs)]),
                   !.fifo = FifoPop(g, "fill_front", "drain_back", r)]

\* A peek, or another call on a guard, ends the run of pushes and pops.
Peeked(g) ==
    [g EXCEPT !.want = None, !.idle = 0, !.fifo = NoRun,
              !.wrote = IF @.end = "none" \/ @.seen THEN NoWrite ELSE [@ EXCEPT !.seen = TRUE]]

\* v written through a RefMut guard made at an end of the deque.
AbsWrite(g, end, v) ==
    [Peeked(g) EXCEPT !.abs[IF end = "front" THEN 1 ELSE Len(g.abs)] = v,
                      !.wrote = [end |-> end, v |-> v, seen |-> FALSE]]

(***************************************************************************)
(* Actions.                                                                *)
(***************************************************************************)
Init ==
    /\ comp \in Components
    /\ first = first_new
    /\ second = second_new
    /\ third = third_new(third_none)
    /\ fourth = fourth_new
    /\ iters = NoIters
    /\ guards = NoGuards
    /\ dropping = NoDropping
    /\ op = "new"
    /\ ret = None
    /\ panic = FALSE
    /\ ghost = Ghost0

\* The list has not been dropped.
Alive == dropping.phase = "none"

FirstPush(v) ==
    /\ comp = "first" /\ ~panic
    /\ Alive
    /\ BoxesLive(first.nodes) < MaxNodes
    /\ first' = first_push(first, v)
    /\ op' = "push"
    /\ ret' = None
    /\ ghost' = AbsPush(ghost, v)
    /\ UNCHANGED << comp, dropping, guards, second, third, fourth, iters, panic >>

FirstPop ==
    /\ comp = "first" /\ ~panic
    /\ Alive
    /\ LET r == first_pop(first)
       IN  first' = r.list /\ ret' = r.ret /\ ghost' = AbsPop(ghost, r.ret)
    /\ op' = "pop"
    /\ UNCHANGED << comp, dropping, guards, second, third, fourth, iters, panic >>

\* The list is neither moved into an IntoIter, nor borrowed by an iterator, nor
\* dropped.
SecondFree == iters = NoIters /\ Alive

SecondPush(v) ==
    /\ comp = "second" /\ ~panic
    /\ SecondFree
    /\ BoxesLive(second.nodes) < MaxNodes
    /\ second' = second_push(second, v)
    /\ op' = "push"
    /\ ret' = None
    /\ ghost' = AbsPush(ghost, v)
    /\ UNCHANGED << comp, dropping, guards, first, third, fourth, iters, panic >>

SecondPop ==
    /\ comp = "second" /\ ~panic
    /\ SecondFree
    /\ LET r == second_pop(second)
       IN  second' = r.list /\ ret' = r.ret /\ ghost' = AbsPop(ghost, r.ret)
    /\ op' = "pop"
    /\ UNCHANGED << comp, dropping, guards, first, third, fourth, iters, panic >>

SecondPeek ==
    /\ comp = "second" /\ ~panic
    /\ SecondFree
    /\ LET r == second_peek(second)
       IN  second' = r.list /\ ret' = r.ret
    /\ op' = "peek"
    /\ UNCHANGED << comp, dropping, guards, first, third, fourth, iters, panic, ghost >>

\* peek_mut whose result is only read.
SecondPeekMut ==
    /\ comp = "second" /\ ~panic
    /\ SecondFree
    /\ LET r == second_peek_mut(second)
       IN  second' = r.list /\ ret' = r.ret
    /\ op' = "peek_mut"
    /\ UNCHANGED << comp, dropping, guards, first, third, fourth, iters, panic, ghost >>

\* peek_mut whose result, if Some, is written with v.
SecondPeekMutWrite(v) ==
    /\ comp = "second" /\ ~panic
    /\ SecondFree
    /\ LET r == second_peek_mut(second)
       IN  /\ r.at # Empty
           /\ second' = WriteAt(r.list, r.at, v)
           /\ ret' = r.ret
    /\ op' = "peek_mut_write"
    /\ ghost' = [ghost EXCEPT !.abs[1] = v, !.runs = 0]
    /\ UNCHANGED << comp, dropping, guards, first, third, fourth, iters, panic >>

\* first.rs, Drop for List: the loop runs an iteration at a time.
FirstDropBegin ==
    /\ comp = "first" /\ ~panic
    /\ Alive
    /\ LET r == first_drop_begin(first)
       IN  first' = r.list /\ dropping' = [phase |-> "loop", cur |-> r.cur]
    /\ op' = "drop"
    /\ ret' = None
    /\ ghost' = Dropped(ghost)
    /\ UNCHANGED << comp, guards, second, third, fourth, iters, panic >>

FirstDropStep ==
    /\ comp = "first"
    /\ dropping.phase = "loop"
    /\ dropping.cur # Empty
    /\ LET r == first_drop_step(first, dropping.cur)
       IN  first' = r.list /\ dropping' = [dropping EXCEPT !.cur = r.cur]
    /\ ghost' = [ghost EXCEPT !.steps = @ + 1]
    /\ UNCHANGED << comp, guards, second, third, fourth, iters, op, ret, panic >>

FirstDropEnd ==
    /\ comp = "first"
    /\ dropping.phase = "loop"
    /\ dropping.cur = Empty
    /\ dropping' = [dropping EXCEPT !.phase = "done"]
    /\ UNCHANGED << comp, guards, first, second, third, fourth, iters, op, ret, panic, ghost >>

\* second.rs, Drop for List<T>.
SecondDropBegin ==
    /\ comp = "second" /\ ~panic
    /\ SecondFree
    /\ LET r == second_drop_begin(second)
       IN  second' = r.list /\ dropping' = [phase |-> "loop", cur |-> r.cur]
    /\ op' = "drop"
    /\ ret' = None
    /\ ghost' = Dropped(ghost)
    /\ UNCHANGED << comp, guards, first, third, fourth, iters, panic >>

SecondDropStep ==
    /\ comp = "second"
    /\ dropping.phase = "loop"
    /\ dropping.cur # Empty
    /\ LET r == second_drop_step(second, dropping.cur)
       IN  second' = r.list /\ dropping' = [dropping EXCEPT !.cur = r.cur]
    /\ ghost' = [ghost EXCEPT !.steps = @ + 1]
    /\ UNCHANGED << comp, guards, first, third, fourth, iters, op, ret, panic >>

SecondDropEnd ==
    /\ comp = "second"
    /\ dropping.phase = "loop"
    /\ dropping.cur = Empty
    /\ dropping' = [dropping EXCEPT !.phase = "done"]
    /\ UNCHANGED << comp, guards, first, second, third, fourth, iters, op, ret, panic, ghost >>

\* A call on the deque: r is the outcome the operation computed, g what the
\* calls amount to if it returns.
FourthCall(name, r, g) ==
    /\ fourth' = r.list
    /\ ret' = r.ret
    /\ panic' = r.panic
    /\ op' = name
    /\ ghost' = IF r.panic THEN ghost ELSE g
    /\ UNCHANGED << comp, dropping, guards, first, second, third, iters >>

\* A method that takes the deque by &mut self or by value is called while no
\* guard is alive; the caller leaks no guard across a push or a pop.
Unborrowed == guards = NoGuards /\ ghost.leaks = 0 /\ Alive

PushFront(v) ==
    /\ comp = "fourth" /\ ~panic
    /\ ~iters.into
    /\ Unborrowed
    /\ CellsLive(fourth.nodes) < MaxNodes
    /\ FourthCall("push_front", fourth_push_front(fourth, v), AbsPush(ghost, v))

PushBack(v) ==
    /\ comp = "fourth" /\ ~panic
    /\ ~iters.into
    /\ Unborrowed
    /\ CellsLive(fourth.nodes) < MaxNodes
    /\ FourthCall("push_back", fourth_push_back(fourth, v), AbsPushBack(ghost, v))

PopFront ==
    /\ comp = "fourth" /\ ~panic
    /\ ~iters.into
    /\ Unborrowed
    /\ LET r == fourth_pop_front(fourth)
       IN  FourthCall("pop_front", r, AbsPop(ghost, r.ret))

PopBack ==
    /\ comp = "fourth" /\ ~panic
    /\ ~iters.into
    /\ Unborrowed
    /\ LET r == fourth_pop_back(fourth)
       IN  FourthCall("pop_back", r, AbsPopBack(ghost, r.ret))

\* fourth.rs, Drop for List<T>: the deque, or the IntoIter that holds it, goes
\* out of scope while no guard borrows it ...
FourthDropBegin ==
    /\ comp = "fourth" /\ ~panic
    /\ Unborrowed
    /\ dropping' = [phase |-> "loop", cur |-> Empty]
    /\ iters' = NoIters
    /\ op' = "drop"
    /\ ret' = None
    /\ ghost' = [Started(ghost, ghost.abs) EXCEPT !.steps = 0, !.wrote = NoWrite]
    /\ UNCHANGED << comp, guards, first, second, third, fourth, panic >>

\* ... each turn of the loop calls pop_front, and a Some goes round again ...
FourthDropStep ==
    /\ comp = "fourth" /\ ~panic
    /\ dropping.phase = "loop"
    /\ LET r == fourth_drop_step(fourth)
       IN  /\ r.panic \/ r.ret # None
           /\ fourth' = r.list
           /\ panic' = r.panic
           /\ ghost' = IF r.panic THEN ghost
                       ELSE [ghost EXCEPT !.abs = Tail(@), !.steps = @ + 1]
    /\ UNCHANGED << comp, dropping, guards, first, second, third, iters, op, ret >>

\* ... and a None ends it.
FourthDropEnd ==
    /\ comp = "fourth" /\ ~panic
    /\ dropping.phase = "loop"
    /\ LET r == fourth_drop_step(fourth)
       IN  /\ ~r.panic /\ r.ret = None
           /\ fourth' = r.list
    /\ dropping' = [dropping EXCEPT !.phase = "done"]
    /\ UNCHANGED << comp, guards, first, second, third, iters, op, ret, panic, ghost >>

\* A peek on the deque: r is its outcome, g the guards alive if it returns Some.
FourthPeek(name, r, g) ==
    /\ fourth' = r.list
    /\ ret' = r.ret
    /\ panic' = r.panic
    /\ op' = name
    /\ guards' = IF r.ret = None THEN guards ELSE g
    /\ ghost' = Peeked(ghost)
    /\ UNCHANGED << comp, dropping, first, second, third, iters >>

\* peek_front(&self) and peek_back(&self) are called while no RefMut guard,
\* which borrows the deque mutably, is alive.
PeekFront ==
    /\ comp = "fourth" /\ ~panic
    /\ ~iters.into /\ Alive
    /\ guards.mut = Empty
    /\ GuardsLive(guards) < MaxGuards
    /\ FourthPeek("peek_front", fourth_peek_front(fourth),
                  [guards EXCEPT !.refs[fourth.head] = @ + 1])

PeekBack ==
    /\ comp = "fourth" /\ ~panic
    /\ ~iters.into /\ Alive
    /\ guards.mut = Empty
    /\ GuardsLive(guards) < MaxGuards
    /\ FourthPeek("peek_back", fourth_peek_back(fourth),
                  [guards EXCEPT !.refs[fourth.tail] = @ + 1])

\* iter(&self): the Ref the Iter holds is released when the Iter goes out of
\* scope (RefDrop).
FourthIter ==
    /\ comp = "fourth" /\ ~panic
    /\ ~iters.into /\ Alive
    /\ guards.mut = Empty
    /\ GuardsLive(guards) < MaxGuards
    /\ LET r == fourth_iter(fourth)
       IN  /\ fourth' = r.list
           /\ panic' = r.panic
           /\ guards' = IF r.panic \/ fourth.head = Empty THEN guards
                        ELSE [guards EXCEPT !.refs[fourth.head] = @ + 1]
    /\ op' = "iter"
    /\ ret' = None
    /\ ghost' = Peeked(ghost)
    /\ UNCHANGED << comp, dropping, first, second, third, iters >>

\* peek_front_mut(&mut self) and peek_back_mut(&mut self) are called while no
\* guard is alive.
PeekFrontMut ==
    /\ comp = "fourth" /\ ~panic
    /\ ~iters.into /\ Alive
    /\ guards = NoGuards
    /\ FourthPeek("peek_front_mut", fourth_peek_front_mut(fourth),
                  [guards EXCEPT !.mut = fourth.head, !.end = "front"])

PeekBackMut ==
    /\ comp = "fourth" /\ ~panic
    /\ ~iters.into /\ Alive
    /\ guards = NoGuards
    /\ FourthPeek("peek_back_mut", fourth_peek_back_mut(fourth),
                  [guards EXCEPT !.mut = fourth.tail, !.end = "back"])

\* A write of v through the RefMut guard alive.
GuardWrite(v) ==
    /\ comp = "fourth" /\ ~panic
    /\ guards.mut # Empty
    /\ fourth' = RefMut_write(fourth, guards.mut, v)
    /\ op' = "write"
    /\ ret' = None
    /\ ghost' = AbsWrite(ghost, guards.end, v)
    /\ UNCHANGED << comp, dropping, first, second, third, iters, guards, panic >>

\* A guard goes out of scope.
RefDrop(x) ==
    /\ comp = "fourth" /\ ~panic
    /\ guards.refs[x] > 0
    /\ fourth' = Ref_drop(fourth, x)
    /\ guards' = [guards EXCEPT !.refs[x] = @ - 1]
    /\ op' = "release"
    /\ ret' = None
    /\ UNCHANGED << comp, dropping, first, second, third, iters, panic, ghost >>

RefMutDrop ==
    /\ comp = "fourth" /\ ~panic
    /\ guards.mut # Empty
    /\ fourth' = RefMut_drop(fourth, guards.mut)
    /\ guards' = NoGuards
    /\ op' = "release"
    /\ ret' = None
    /\ UNCHANGED << comp, dropping, first, second, third, iters, panic, ghost >>

\* mem::forget(guard) of the RefMut guard alive: the guard is gone and its
\* destructor never runs.
RefMutForget ==
    /\ comp = "fourth" /\ ~panic
    /\ ghost.leaks = 0
    /\ guards.mut # Empty
    /\ guards' = NoGuards
    /\ op' = "forget"
    /\ ret' = None
    /\ ghost' = [Peeked(ghost) EXCEPT !.leaks = @ + 1, !.leaked = guards.mut]
    /\ UNCHANGED << comp, dropping, first, second, third, fourth, iters, panic >>

\* A call on the persistent lists, made when no destructor is running.
ThirdCall(name, t, tails, past) ==
    /\ comp = "third" /\ ~panic
    /\ ~third.drop.on
    /\ third' = t
    /\ op' = name
    /\ ret' = None
    /\ ghost' = [ghost EXCEPT !.tails = IF iters.iter.live THEN 0 ELSE tails,
                             !.past = IF iters.iter.live THEN 0 ELSE past]
    /\ UNCHANGED << comp, dropping, guards, first, second, fourth, iters, panic >>

\* The List values and the Iter alive.
ValuesLive == ListsLive(third) + (IF iters.iter.live THEN 1 ELSE 0)

\* There is room for k more values and nodes.
Room(k) == ValuesLive + RcsLive(third.nodes) + k <= MaxLive

ThirdNew ==
    /\ ValuesLive < MaxLists /\ Room(1)
    /\ ThirdCall("new", third_new(third), 0, 0)

ThirdAppend(h, v) ==
    /\ third.lists[h] > 0
    /\ ValuesLive < MaxLists
    /\ RcsLive(third.nodes) < MaxShared
    /\ Room(2)
    /\ ThirdCall("append", third_append(third, h, v), 0, 0)

ThirdTail(h) ==
    /\ third.lists[h] > 0
    /\ ValuesLive < MaxLists /\ Room(1)
    /\ ThirdCall("tail", third_tail(third, h), Min(2, ghost.tails + 1),
                 IF h = Empty THEN Min(2, ghost.past + 1) ELSE 0)

\* A List that an Iter borrows is not dropped; another List value with the
\* same head may be.
ThirdDropBegin(h) ==
    /\ third.lists[h] > (IF iters.iter.live /\ iters.iter.of = h THEN 1 ELSE 0)
    /\ comp = "third" /\ ~panic
    /\ ~third.drop.on
    /\ third' = third_drop_begin(third, h)
    /\ op' = "drop"
    /\ ret' = None
    /\ ghost' = [ghost EXCEPT !.tails = 0, !.past = 0, !.steps = 0, !.kept = 0,
                             !.walk = Len(Elements3(third, h))]
    /\ UNCHANGED << comp, dropping, guards, first, second, fourth, iters, panic >>

ThirdDropStep ==
    /\ comp = "third"
    /\ third.drop.on
    /\ third.drop.cur # Empty
    /\ third' = third_drop_step(third)
    /\ ghost' = [ghost EXCEPT !.steps = @ + 1,
                             !.kept = @ + (IF third'.nodes[third.drop.cur].rc > 0 THEN 1 ELSE 0)]
    /\ UNCHANGED << comp, dropping, guards, first, second, fourth, iters, op, ret, panic >>

ThirdDropEnd ==
    /\ comp = "third"
    /\ third.drop.on
    /\ third.drop.cur = Empty
    /\ third' = third_drop_end(third)
    /\ ghost' = [ghost EXCEPT !.steps = 0, !.kept = 0, !.walk = 0]
    /\ UNCHANGED << comp, dropping, guards, first, second, fourth, iters, op, ret, panic >>

\* second.rs: the list is moved into an IntoIter, which is then called.
SecondIntoIter ==
    /\ comp = "second" /\ ~panic
    /\ SecondFree
    /\ iters' = second_into_iter(iters)
    /\ op' = "into_iter"
    /\ ret' = None
    /\ ghost' = Started(ghost, ghost.abs)
    /\ UNCHANGED << comp, dropping, guards, first, second, third, fourth, panic >>

SecondIntoIterNext ==
    /\ comp = "second" /\ ~panic
    /\ iters.into
    /\ LET r == second_IntoIter_next(second)
       IN  /\ second' = r.list
           /\ ret' = r.ret
           /\ ghost' = Called(AbsPop(ghost, r.ret), Len(ghost.snap))
    /\ op' = "next"
    /\ UNCHANGED << comp, dropping, guards, first, third, fourth, iters, panic >>

\* second.rs: iter() borrows the list; a new Iter replaces the one before.
SecondIter ==
    /\ comp = "second" /\ ~panic
    /\ ~iters.into /\ ~iters.mut.live /\ Alive
    /\ iters' = [iters EXCEPT !.iter = second_iter(second)]
    /\ op' = "iter"
    /\ ret' = None
    /\ ghost' = Rerun(Started(ghost, ghost.abs))
    /\ UNCHANGED << comp, dropping, guards, first, second, third, fourth, panic >>

SecondIterNext ==
    /\ comp = "second" /\ ~panic
    /\ iters.iter.live
    /\ LET r == second_Iter_next(second, iters.iter)
       IN  iters' = [iters EXCEPT !.iter = r.iter] /\ ret' = r.ret
    /\ op' = "iter_next"
    /\ ghost' = Called(ghost, Len(ghost.snap))
    /\ UNCHANGED << comp, dropping, guards, first, second, third, fourth, panic >>

SecondIterEnd ==
    /\ comp = "second" /\ ~panic
    /\ iters.iter.live
    /\ iters' = [iters EXCEPT !.iter = NoIter]
    /\ op' = "iter_end"
    /\ ret' = None
    /\ ghost' = Ended(ghost)
    /\ UNCHANGED << comp, dropping, guards, first, second, third, fourth, panic >>

\* second.rs: iter_mut() borrows the list mutably until SecondIterMutEnd.
SecondIterMut ==
    /\ comp = "second" /\ ~panic
    /\ SecondFree
    /\ iters' = [iters EXCEPT !.mut = second_iter_mut(second)]
    /\ op' = "iter_mut"
    /\ ret' = None
    /\ ghost' = Started(ghost, << >>)
    /\ UNCHANGED << comp, dropping, guards, first, second, third, fourth, panic >>

SecondIterMutNext ==
    /\ comp = "second" /\ ~panic
    /\ iters.mut.live
    /\ LET r == second_IterMut_next(second, iters.mut)
       IN  iters' = [iters EXCEPT !.mut = r.iter] /\ ret' = r.ret
    /\ op' = "iter_mut_next"
    /\ ghost' = Called(ghost, Len(ghost.abs))
    /\ UNCHANGED << comp, dropping, guards, first, second, third, fourth, panic >>

\* A write of v through the k-th &mut that the IterMut handed out.
SecondWrite(k, v) ==
    /\ comp = "second" /\ ~panic
    /\ iters.mut.live
    /\ k \in 1..Len(iters.mut.out)
    /\ second' = WriteElem(second, iters.mut, k, v)
    /\ op' = "write"
    /\ ret' = None
    /\ ghost' = [ghost EXCEPT !.abs[k] = v, !.runs = 0]
    /\ UNCHANGED << comp, dropping, guards, first, third, fourth, iters, panic >>

SecondIterMutEnd ==
    /\ comp = "second" /\ ~panic
    /\ iters.mut.live
    /\ iters' = [iters EXCEPT !.mut = NoIterMut]
    /\ op' = "iter_mut_end"
    /\ ret' = None
    /\ ghost' = Ended(ghost)
    /\ UNCHANGED << comp, dropping, guards, first, second, third, fourth, panic >>

\* fourth.rs: the deque is moved into an IntoIter, which is called at both ends.
FourthIntoIter ==
    /\ comp = "fourth" /\ ~panic
    /\ ~iters.into
    /\ Unborrowed
    /\ iters' = fourth_into_iter(iters)
    /\ op' = "into_iter"
    /\ ret' = None
    /\ ghost' = Started(ghost, ghost.abs)
    /\ UNCHANGED << comp, dropping, guards, first, second, third, fourth, panic >>

FourthIntoIterNext ==
    /\ comp = "fourth" /\ ~panic
    /\ iters.into /\ Alive
    /\ LET r == fourth_IntoIter_next(fourth)
       IN  FourthCall("next", r, Called(AbsPop(ghost, r.ret), Len(ghost.snap)))

FourthIntoIterNextBack ==
    /\ comp = "fourth" /\ ~panic
    /\ iters.into /\ Alive
    /\ LET r == fourth_IntoIter_next_back(fourth)
       IN  FourthCall("next_back", r, CalledBack(AbsPopBack(ghost, r.ret), Len(ghost.snap)))

\* third.rs: iter() borrows the List whose head is h.
ThirdIter(h) ==
    /\ comp = "third" /\ ~panic
    /\ ~third.drop.on
    /\ third.lists[h] > 0
    /\ iters.iter.live \/ (ValuesLive < MaxLists /\ Room(1))
    /\ iters' = [iters EXCEPT !.iter = third_iter(third, h)]
    /\ op' = "iter"
    /\ ret' = None
    /\ ghost' = [Started(ghost, Elements3(third, h)) EXCEPT !.tails = 0, !.past = 0]
    /\ UNCHANGED << comp, dropping, guards, first, second, third, fourth, panic >>

ThirdIterNext ==
    /\ comp = "third" /\ ~panic
    /\ ~third.drop.on
    /\ iters.iter.live
    /\ LET r == third_Iter_next(third, iters.iter)
       IN  iters' = [iters EXCEPT !.iter = r.iter] /\ ret' = r.ret
    /\ op' = "iter_next"
    /\ ghost' = Called(ghost, Len(ghost.snap))
    /\ UNCHANGED << comp, dropping, guards, first, second, third, fourth, panic >>

ThirdIterEnd ==
    /\ comp = "third" /\ ~panic
    /\ ~third.drop.on
    /\ iters.iter.live
    /\ iters' = [iters EXCEPT !.iter = NoIter]
    /\ op' = "iter_end"
    /\ ret' = None
    /\ ghost' = Ended(ghost)
    /\ UNCHANGED << comp, dropping, guards, first, second, third, fourth, panic >>

Next ==
    \/ \E v \in Elems : FirstPush(v)
    \/ FirstPop
    \/ \E v \in Elems : SecondPush(v)
    \/ SecondPop
    \/ \E v \in Elems : PushFront(v)
    \/ \E v \in Elems : PushBack(v)
    \/ PopFront
    \/ PopBack
    \/ ThirdNew
    \/ \E h \in Links, v \in Elems : ThirdAppend(h, v)
    \/ \E h \in Links : ThirdTail(h)
    \/ \E h \in Links : ThirdDropBegin(h)
    \/ ThirdDropStep
    \/ ThirdDropEnd
    \/ SecondIntoIter
    \/ SecondIntoIterNext
    \/ SecondIter
    \/ SecondIterNext
    \/ SecondIterEnd
    \/ SecondIterMut
    \/ SecondIterMutNext
    \/ \E k \in 1..MaxNodes, v \in Elems : SecondWrite(k, v)
    \/ SecondIterMutEnd
    \/ FourthIntoIter
    \/ FourthIntoIterNext
    \/ FourthIntoIterNextBack
    \/ \E h \in Links : ThirdIter(h)
    \/ ThirdIterNext
    \/ ThirdIterEnd
    \/ SecondPeek
    \/ SecondPeekMut
    \/ \E v \in Elems : SecondPeekMutWrite(v)
    \/ PeekFront
    \/ PeekBack
    \/ PeekFrontMut
    \/ PeekBackMut
    \/ \E v \in Elems : GuardWrite(v)
    \/ \E x \in NodeIds : RefDrop(x)
    \/ RefMutDrop
    \/ RefMutForget
    \/ FirstDropBegin
    \/ FirstDropStep
    \/ FirstDropEnd
    \/ SecondDropBegin
    \/ SecondDropStep
    \/ SecondDropEnd
    \/ FourthDropBegin
    \/ FourthDropStep
    \/ FourthDropEnd    \/ FourthIter
Spec == Init /\ [][Next]_vars

(***************************************************************************)
(* C1: on the exclusive lists of first.rs and second.rs, after any         *)
(* interleaving of push and pop from new(), the chain from head is the     *)
(* sequence of pushed values not yet popped, most recent first; pop        *)
(* returns the most recent of them, and None exactly when there is none.   *)
(***************************************************************************)
C1_Lifo ==
    /\ comp = "first" =>
          /\ Chain(first) = ghost.abs
          /\ (op = "pop" => ret = ghost.want)
    /\ comp = "second" =>
          /\ Chain(second) = ghost.abs
          /\ (op = "pop" => ret = ghost.want)

\* A pop that returned the last of three values pushed, the other two still stacked.
C1_Witness ==
    /\ comp = "first"
    /\ op = "pop"
    /\ ret = Some(1)
    /\ ghost.abs = << 2, 1 >>

(***************************************************************************)
(* C2: on the deque, after any interleaving of push_front, push_back,      *)
(* pop_front and pop_back from new(), the chain read from head along next  *)
(* is the abstract sequence (push_front prepends, push_back appends, the   *)
(* pops remove the first or the last element), and every pop returns what  *)
(* the abstract sequence returns, without panicking (no borrow guard       *)
(* having been leaked with mem::forget).                                   *)
(***************************************************************************)
C2_DequeRefines ==
    (comp = "fourth" /\ ghost.leaks = 0) =>
        /\ ~panic
        /\ Chain(fourth) = ghost.abs
        /\ (op \in {"pop_front", "pop_back"} => ret = ghost.want)

\* A pop_back on three elements that were not all pushed at the front: the middle
\* node became the tail.
C2_Witness ==
    /\ comp = "fourth"
    /\ op = "pop_back"
    /\ ret = Some(2)
    /\ ghost.abs = << 1, 2 >>
    /\ ghost.fifo.mode = "none"
    /\ fourth.nodes[fourth.head].next = fourth.tail

(***************************************************************************)
(* C3: n push_back calls on an empty deque followed by n pop_front calls   *)
(* return the values in the order pushed, and so do n push_front calls     *)
(* followed by n pop_back calls; after the n-th pop the deque is empty.    *)
(***************************************************************************)
C3_Fifo ==
    (comp = "fourth" /\ ghost.fifo.mode \in {"drain_front", "drain_back"}) =>
        LET f == ghost.fifo
        IN  /\ \A i \in 1..Len(f.out) : f.out[i] = Some(f.in[i])
            /\ Len(f.out) = Len(f.in) => fourth = fourth_new

\* Three values pushed at the back have all come out at the front.
C3_Witness ==
    /\ comp = "fourth"
    /\ ghost.fifo.mode = "drain_front"
    /\ ghost.fifo.in = << 1, 2, 1 >>
    /\ Len(ghost.fifo.out) = 3

(***************************************************************************)
(* C4: a pop on an empty container (pop of first.rs and second.rs,         *)
(* pop_front and pop_back of the deque) returns None, does not panic and   *)
(* leaves the container as it was, head absent and, for the deque, tail    *)
(* absent; however often it is repeated and however the container was      *)
(* emptied.                                                                *)
(***************************************************************************)
C4_EmptyPop ==
    [][(ghost.abs = << >> /\ op' \in {"pop", "pop_front", "pop_back"}) =>
          /\ ret' = None
          /\ ~panic'
          /\ first' = first /\ second' = second /\ fourth' = fourth
          /\ first'.head = Empty /\ second'.head = Empty
          /\ fourth'.head = Empty /\ fourth'.tail = Empty]_vars

\* The second pop_back in a row on a deque that pops had emptied.
C4_Witness ==
    /\ comp = "fourth"
    /\ op = "pop_back"
    /\ ghost.used
    /\ ghost.idle = 2
    /\ ret = None

(***************************************************************************)
(* C5: append on a persistent list L with value x makes one new list whose *)
(* head() is x and whose elements are x followed by L's elements; L's own  *)
(* head() and elements are what they were before the call.                 *)
(***************************************************************************)
C5_AppendPersistent ==
    [][\A h \in Links, x \in Elems :
          (op' = "append" /\ ThirdAppend(h, x)) =>
              \E n \in RcIds :
                  /\ third.nodes[n].rc = 0
                  /\ third'.lists = [third.lists EXCEPT ![n] = @ + 1]
                  /\ third_head(third', n) = Some(x)
                  /\ Elements3(third', n) = << x >> \o Elements3(third, h)
                  /\ third_head(third', h) = third_head(third, h)
                  /\ Elements3(third', h) = Elements3(third, h)]_vars

\* A list of two elements made by append, next to the one-element list it was made from.
C5_Witness ==
    /\ comp = "third"
    /\ op = "append"
    /\ \E n \in RcIds, h \in RcIds :
          /\ third.lists[n] = 1 /\ third.lists[h] = 1
          /\ third.nodes[n].next = h
          /\ Elements3(third, n) = << 2, 1 >>
          /\ Elements3(third, h) = << 1 >>

(***************************************************************************)
(* C6: tail on a persistent list L makes one new list whose elements are   *)
(* L's without the first and leaves L as it was; the tail of an empty or   *)
(* one-element list is an empty list, and so is every further tail() of    *)
(* it: its head() is None.                                                 *)
(***************************************************************************)
C6_Tail ==
    [][\A h \in Links :
          (op' = "tail" /\ ThirdTail(h)) =>
              \E k \in Links :
                  /\ third'.lists = [third.lists EXCEPT ![k] = @ + 1]
                  /\ Elements3(third', k) =
                        (IF Elements3(third, h) = << >> THEN << >>
                         ELSE Tail(Elements3(third, h)))
                  /\ third_head(third', h) = third_head(third, h)
                  /\ Elements3(third', h) = Elements3(third, h)
                  /\ Len(Elements3(third, h)) <= 1 =>
                        (k = Empty /\ third_head(third', k) = None)]_vars

\* Two tail() calls in a row, of a one-element list and then of the empty list
\* that the first call made.
C6_Witness ==
    /\ comp = "third"
    /\ op = "tail"
    /\ ghost.tails = 2 /\ ghost.past = 1
    /\ third.lists[Empty] = 2
    /\ \E n \in RcIds : third.lists[n] = 1 /\ Len(Elements3(third, n)) = 1

(***************************************************************************)
(* C7: the deque's consuming iterator, made of a deque of n elements no    *)
(* guard of which was leaked with mem::forget, and called with any mix of  *)
(* next() and next_back(), never panics; among the                         *)
(* first n calls the k-th next() returns the k-th element from the front   *)
(* and the k-th next_back() the k-th element from the back, so each        *)
(* element is returned exactly once and exactly n calls return Some; the   *)
(* elements not yet returned are still in the deque; every call after the  *)
(* n-th, at either end, returns None.                                      *)
(***************************************************************************)
C7_IntoIterBothEnds ==
    (comp = "fourth" /\ iters.into /\ ghost.leaks = 0) =>
        LET n == Len(ghost.snap)
        IN  /\ ~panic
            /\ ghost.calls + ghost.backs <= n
            /\ Chain(fourth) = SubSeq(ghost.snap, ghost.calls + 1, n - ghost.backs)
            /\ ghost.calls + ghost.backs = n => fourth = fourth_new
            /\ op = "next" =>
                   ret = IF ghost.over = 0 THEN Some(ghost.snap[ghost.calls]) ELSE None
            /\ op = "next_back" =>
                   ret = IF ghost.over = 0 THEN Some(ghost.snap[n + 1 - ghost.backs])
                         ELSE None

\* Front, back, front on the deque 2, 2, 1 have returned 2, 1, 2, and then a
\* back pull returns None.
C7_Witness ==
    /\ comp = "fourth" /\ iters.into
    /\ ghost.snap = << 2, 2, 1 >>
    /\ ghost.calls = 2 /\ ghost.backs = 1 /\ ghost.over = 1
    /\ op = "next_back" /\ ret = None

(***************************************************************************)
(* C8: the IntoIter of a generic exclusive list that held xn, ..., x1      *)
(* front first (x1..xn pushed in that order) returns xn, ..., x1 from its  *)
(* first n next() calls, each the value a pop would have returned, and     *)
(* None from every later call.                                             *)
(***************************************************************************)
C8_IntoIter ==
    (comp = "second" /\ iters.into) =>
        LET n == Len(ghost.snap)
        IN  /\ ghost.calls <= n
            /\ Chain(second) = SubSeq(ghost.snap, ghost.calls + 1, n)
            /\ op = "next" =>
                   /\ ret = IF ghost.over = 0 THEN Some(ghost.snap[ghost.calls]) ELSE None
                   /\ ret = ghost.want

\* Of the list 1, 2, 1 three calls have returned the elements; two more have
\* returned None.
C8_Witness ==
    /\ comp = "second" /\ iters.into
    /\ ghost.snap = << 1, 2, 1 >>
    /\ ghost.calls = 3 /\ ghost.over = 2
    /\ op = "next" /\ ret = None

(***************************************************************************)
(* C9: while an Iter made by iter() on a generic exclusive list or on a    *)
(* persistent list is alive, the list holds the elements it held when      *)
(* iter() was called; a new Iter starts at the list's head; the k-th       *)
(* next() returns the k-th element from the front for k up to the number   *)
(* of elements and every later call None.  This holds for every Iter made, *)
(* so a second iter() on the unmodified list yields the same sequence      *)
(* again.                                                                  *)
(***************************************************************************)
C9_Iter ==
    (comp \in {"second", "third"} /\ iters.iter.live) =>
        LET s == IF comp = "second" THEN Chain(second)
                 ELSE Elements3(third, iters.iter.of)
        IN  /\ s = ghost.snap
            /\ ghost.calls <= Len(s)
            /\ comp = "second" => iters.iter.of = second.head
            /\ comp = "third" => third.lists[iters.iter.of] > 0
            /\ op = "iter" => /\ ghost.calls = 0
                              /\ iters.iter.next = iters.iter.of
            /\ op = "iter_next" =>
                   ret = IF ghost.over = 0 THEN Some(s[ghost.calls]) ELSE None

\* A second Iter over the list 2, 1 has returned both elements and then None.
C9_Witness ==
    /\ comp = "second" /\ iters.iter.live
    /\ ghost.runs = 2
    /\ Chain(second) = << 2, 1 >>
    /\ ghost.calls = 2 /\ ghost.over = 1
    /\ op = "iter_next" /\ ret = None

(***************************************************************************)
(* C10: the nodes whose element an IterMut of a generic exclusive list has *)
(* handed out are the first nodes of the list, in order, each once; the    *)
(* cursor is none of them; the k-th next() returns the k-th element from   *)
(* the front for k up to the number of elements, and every later call      *)
(* None.                                                                   *)
(***************************************************************************)
C10_IterMut ==
    (comp = "second" /\ iters.mut.live) =>
        LET out == iters.mut.out
        IN  /\ \A i, j \in 1..Len(out) : i # j => out[i] # out[j]
            /\ \A i \in 1..Len(out) : iters.mut.next # out[i]
            /\ out = SubSeq(Path(second), 1, ghost.calls)
            /\ op = "iter_mut_next" =>
                   ret = IF ghost.over = 0 THEN Some(ghost.abs[ghost.calls]) ELSE None

\* Both elements of the list 2, 1 were handed out and two more calls returned
\* None.
C10_Witness ==
    /\ comp = "second" /\ iters.mut.live
    /\ Chain(second) = << 2, 1 >>
    /\ Len(iters.mut.out) = 2
    /\ ghost.calls = 2 /\ ghost.over = 2
    /\ op = "iter_mut_next" /\ ret = None

(***************************************************************************)
(* C11: on a generic exclusive list, peek() and peek_mut() return None if  *)
(* the list is empty and otherwise the value at its front, the one the     *)
(* next pop() returns; a call whose result is not written through leaves   *)
(* the list as it was.                                                     *)
(***************************************************************************)
C11_Peek ==
    [][(comp = "second" /\ op' \in {"peek", "peek_mut"}) =>
          /\ ret' = None <=> ghost.abs = << >>
          /\ ghost.abs # << >> => ret' = Some(Head(ghost.abs))
          /\ ret' = second_pop(second').ret
          /\ Chain(second') = Chain(second)
          /\ second' = second]_vars

\* peek_mut on the list 2, 1 has returned 2.
C11_Witness ==
    /\ comp = "second"
    /\ op = "peek_mut"
    /\ ret = Some(2)
    /\ Chain(second) = << 2, 1 >>

(***************************************************************************)
(* C12: on a non-empty deque, a write through the guard that               *)
(* peek_front_mut returned changes the first element, no other element,    *)
(* not the number of elements and no link, and the value written is what   *)
(* the very next peek_front or pop_front returns; likewise for             *)
(* peek_back_mut, the last element, peek_back and pop_back.                *)
(***************************************************************************)
C12_WriteThroughGuard ==
    [][comp = "fourth" =>
          /\ op' = "write" =>
                LET s == Chain(fourth)
                    k == IF guards.end = "front" THEN 1 ELSE Len(s)
                IN  /\ s # << >>
                    /\ ghost'.wrote.end = guards.end
                    /\ Chain(fourth') = [s EXCEPT ![k] = ghost'.wrote.v]
                    /\ fourth'.head = fourth.head /\ fourth'.tail = fourth.tail
                    /\ \A n \in NodeIds :
                          fourth'.nodes[n] =
                              [fourth.nodes[n] EXCEPT !.elem = fourth'.nodes[n].elem]
          /\ (ghost.wrote.end = "front" /\ ~ghost.wrote.seen
                  /\ op' \in {"peek_front", "pop_front"}) =>
                (ret' = Some(ghost.wrote.v) /\ ~panic')
          /\ (ghost.wrote.end = "back" /\ ~ghost.wrote.seen
                  /\ op' \in {"peek_back", "pop_back"}) =>
                (ret' = Some(ghost.wrote.v) /\ ~panic')]_vars

\* 2 was written over the last element of the deque 2, 1 through the guard of
\* peek_back_mut, and the next call, peek_back, has returned 2.
C12_Witness ==
    /\ comp = "fourth"
    /\ op = "peek_back"
    /\ ghost.wrote = [end |-> "back", v |-> 2, seen |-> TRUE]
    /\ ret = Some(2)
    /\ ghost.abs = << 2, 2 >>
    /\ fourth.head # fourth.tail

(***************************************************************************)
(* C13: while the guard that peek_front_mut returned is not released (the  *)
(* head node's RefCell is mutably borrowed), a peek_front and a            *)
(* peek_front_mut on the deque panic instead of returning a guard, and     *)
(* leave the deque's links, elements and borrow flags as they were.        *)
(***************************************************************************)
C13_GuardHeldPanics ==
    [][(/\ comp = "fourth"
        /\ op' \in {"peek_front", "peek_front_mut"}
        /\ fourth.head # Empty
        /\ fourth.nodes[fourth.head].borrow < 0) =>
          /\ panic'
          /\ ret' = None
          /\ fourth' = fourth
          /\ guards' = guards]_vars

\* peek_front has panicked on a deque of two elements whose head is still borrowed
\* by a leaked guard of peek_front_mut.
C13_Witness ==
    /\ comp = "fourth"
    /\ panic
    /\ op = "peek_front"
    /\ ghost.leaks = 1
    /\ Len(ghost.abs) = 2
    /\ fourth.nodes[fourth.head].borrow = -1
    /\ fourth.nodes[fourth.tail].borrow = 0

(***************************************************************************)
(* C14: the destructor of an exclusive list (first.rs, second.rs) of n     *)
(* elements empties the head and then releases one node in each iteration  *)
(* of its loop, the node at the cursor, after taking its next link: after  *)
(* k iterations the n - k nodes from the cursor on are the only ones       *)
(* allocated, and the loop ends after exactly n iterations with no node    *)
(* left.                                                                   *)
(***************************************************************************)
C14_DropExclusive ==
    (comp \in {"first", "second"} /\ dropping.phase # "none") =>
        LET l == IF comp = "first" THEN first ELSE second
            n == Len(ghost.snap)
            rest == ChainFrom(l.nodes, dropping.cur, MaxNodes + 1)
        IN  /\ l.head = Empty
            /\ ghost.steps <= n
            /\ rest = SubSeq(ghost.snap, ghost.steps + 1, n)
            /\ BoxesLive(l.nodes) = n - ghost.steps
            /\ dropping.phase = "done" => (ghost.steps = n /\ l.nodes = NoBoxes)

\* The destructor of a list of three elements has returned.
C14_Witness ==
    /\ comp = "first"
    /\ dropping.phase = "done"
    /\ ghost.snap = << 1, 2, 1 >>
    /\ ghost.steps = 3
    /\ first = first_new

(***************************************************************************)
(* C15, as the specification states it: when the loop of the persistent    *)
(* list's destructor reaches a node that another handle still holds, it    *)
(* stops: the node stays allocated and the loop visits no node after it.   *)
(***************************************************************************)
C15_StopsEarly ==
    [][(/\ comp = "third"
        /\ third.drop.on
        /\ third.drop.cur # Empty
        /\ third.nodes[third.drop.cur].rc > 1
        /\ third' # third) =>
            /\ third'.nodes[third.drop.cur].rc > 0
            /\ third'.drop.cur = Empty]_vars

(***************************************************************************)
(* C15, amended: the destructor of a persistent list walks the whole chain *)
(* front to back, one node in each iteration, whether or not another       *)
(* handle holds the node.  An iteration on a node nothing else holds frees *)
(* it and leaves its successor's count as it was; an iteration on a node   *)
(* another handle holds leaves the node allocated with its element and     *)
(* link, takes one from its count and hands one to its successor's.  Both  *)
(* go on to the successor, no other node and no List value changes, and    *)
(* the loop ends after as many iterations as the chain had nodes.          *)
(***************************************************************************)
C15_DropWalksChain ==
    [][(comp = "third" /\ third.drop.on /\ third' # third) =>
          LET x == third.drop.cur
          IN  IF x = Empty
              THEN /\ ~third'.drop.on
                   /\ ghost.steps = ghost.walk
                   /\ third'.nodes = third.nodes
              ELSE LET y == third.nodes[x].next
                   IN  /\ third'.drop = [on |-> TRUE, cur |-> y]
                       /\ ghost'.steps = ghost.steps + 1
                       /\ ghost'.steps <= ghost.walk
                       /\ third'.lists = third.lists
                       /\ \A n \in RcIds \ {x, y} : third'.nodes[n] = third.nodes[n]
                       /\ IF third.nodes[x].rc > 1
                          THEN /\ third'.nodes[x] = [third.nodes[x] EXCEPT !.rc = @ - 1]
                               /\ y # Empty =>
                                    third'.nodes[y] = [third.nodes[y] EXCEPT !.rc = @ + 1]
                          ELSE /\ third'.nodes[x] = FreeRc
                               /\ y # Empty => third'.nodes[y] = third.nodes[y]]_vars

\* The loop has ended on a chain of three nodes: it freed the first and went
\* on over the two that another list holds.
C15_Witness ==
    /\ comp = "third"
    /\ third.drop.on /\ third.drop.cur = Empty
    /\ ghost.walk = 3 /\ ghost.steps = 3 /\ ghost.kept = 2
    /\ RcsLive(third.nodes) = 2
    /\ \E h \in RcIds : third.lists[h] = 1 /\ Elements3(third, h) = << 2, 1 >>

(***************************************************************************)
(* C16: the destructor of a deque of n elements, no guard of which was     *)
(* leaked with mem::forget, does not panic and pops one element from the   *)
(* front in each turn of its loop: after k turns the n - k elements left   *)
(* are the only nodes allocated, and the loop ends after n turns with the  *)
(* deque empty and every node freed, so that no prev or next handle keeps  *)
(* a node alive.                                                           *)
(***************************************************************************)
C16_DropDeque ==
    (comp = "fourth" /\ dropping.phase # "none") =>
        LET n == Len(ghost.snap)
        IN  /\ ~panic
            /\ ghost.steps <= n
            /\ Chain(fourth) = SubSeq(ghost.snap, ghost.steps + 1, n)
            /\ CellsLive(fourth.nodes) = n - ghost.steps
            /\ dropping.phase = "done" => (ghost.steps = n /\ fourth = fourth_new)

\* The destructor of a deque of three elements has returned.
C16_Witness ==
    /\ comp = "fourth"
    /\ dropping.phase = "done"
    /\ ghost.snap = << 1, 2, 2 >>
    /\ ghost.steps = 3
    /\ \A x \in NodeIds : fourth.nodes[x].rc = 0

\* The strong references to node x of deque l: the head and tail fields and the
\* next and prev links of the nodes allocated.
Owners(l, x) ==
    (IF l.head = x THEN 1 ELSE 0) + (IF l.tail = x THEN 1 ELSE 0)
    + Cardinality({m \in NodeIds : l.nodes[m].rc > 0 /\ l.nodes[m].next = x})
    + Cardinality({m \in NodeIds : l.nodes[m].rc > 0 /\ l.nodes[m].prev = x})

(***************************************************************************)
(* C17: between the operations of a deque that has not panicked, the nodes *)
(* allocated are those met following next from head, and each of them has  *)
(* a strong count of two, held by exactly two owners: the head field if it *)
(* is the first node and the next link of its predecessor if not, and the  *)
(* tail field if it is the last node and the prev link of its successor if *)
(* not.                                                                    *)
(***************************************************************************)
C17_TwoOwners ==
    (comp = "fourth" /\ ~panic) =>
        LET p == Path(fourth)
            n == Len(p)
        IN  /\ \A x \in NodeIds : fourth.nodes[x].rc > 0 => \E i \in 1..n : p[i] = x
            /\ \A i \in 1..n :
                  /\ fourth.nodes[p[i]].rc = 2
                  /\ Owners(fourth, p[i]) = 2
                  /\ IF i = 1 THEN fourth.head = p[i]
                     ELSE fourth.nodes[p[i - 1]].next = p[i]
                  /\ IF i = n THEN fourth.tail = p[i]
                     ELSE fourth.nodes[p[i + 1]].prev = p[i]

\* Three nodes, the last pushed at the back: the middle one, in the first cell,
\* is held by its two neighbours only.
C17_Witness ==
    /\ comp = "fourth" /\ ~panic
    /\ op = "push_back"
    /\ Len(Path(fourth)) = 3
    /\ LET x == Path(fourth)[2]
       IN  /\ fourth.head # x /\ fourth.tail # x
           /\ fourth.nodes[x].rc = 2
           /\ x = 1

(***************************************************************************)
(* C18: in every state of a deque that has not panicked, the match in      *)
(* pop_front leaves the old head, and the match in pop_back the old tail,  *)
(* with a strong count of one, the handle taken from the field, when       *)
(* Rc::try_unwrap is reached; so a pop called while no guard is alive or   *)
(* leaked does not panic, and the pops and pulls made have not.            *)
(***************************************************************************)
C18_UnwrapSoleOwner ==
    (comp = "fourth" /\ ~panic) =>
        /\ fourth.head # Empty =>
              /\ fourth_pop_front_detach([fourth EXCEPT !.head = Empty],
                                         fourth.head).nodes[fourth.head].rc = 1
              /\ (guards = NoGuards /\ ghost.leaks = 0) => ~fourth_pop_front(fourth).panic
        /\ fourth.tail # Empty =>
              /\ fourth_pop_back_detach([fourth EXCEPT !.tail = Empty],
                                        fourth.tail).nodes[fourth.tail].rc = 1
              /\ (guards = NoGuards /\ ghost.leaks = 0) => ~fourth_pop_back(fourth).panic
        /\ (op \in {"pop_front", "pop_back"} /\ ghost.want # None) =>
              /\ ret = ghost.want
              /\ CellsLive(fourth.nodes) = Len(ghost.abs)

\* A pop_back has unwrapped the node in the second cell, pushed at the back
\* between two pushes at the front, and two nodes are left to pop.
C18_Witness ==
    /\ comp = "fourth" /\ ~panic
    /\ op = "pop_back" /\ ret = Some(1)
    /\ Path(fourth) = << 3, 1 >>
    /\ fourth.nodes[2] = FreeCell

(***************************************************************************)
(* C19: between the operations of a deque that has not panicked the links  *)
(* agree: the head node has no prev and the tail node no next; for any two *)
(* nodes a and b allocated, a.next is b exactly when b.prev is a; and      *)
(* following next from head meets every allocated node once, no free cell, *)
(* and ends at the tail node.                                              *)
(***************************************************************************)
C19_LinksAgree ==
    (comp = "fourth" /\ ~panic) =>
        LET p == Path(fourth)
            n == Len(p)
            live == {x \in NodeIds : fourth.nodes[x].rc > 0}
        IN  /\ fourth.head # Empty => fourth.nodes[fourth.head].prev = Empty
            /\ fourth.tail # Empty => fourth.nodes[fourth.tail].next = Empty
            /\ \A a, b \in live : fourth.nodes[a].next = b <=> fourth.nodes[b].prev = a
            /\ \A a \in live : /\ fourth.nodes[a].next \in live \cup {Empty}
                               /\ fourth.nodes[a].prev \in live \cup {Empty}
            /\ {p[i] : i \in 1..n} = live
            /\ n = Cardinality(live)
            /\ n > 0 => p[n] = fourth.tail

\* A pop_front of three has made the node in the second cell the head: the two
\* nodes left point at each other and at nothing else.
C19_Witness ==
    /\ comp = "fourth" /\ ~panic
    /\ op = "pop_front" /\ ret = Some(2)
    /\ Path(fourth) = << 2, 1 >>
    /\ fourth.nodes[1].prev = 2 /\ fourth.nodes[1].next = Empty
    /\ fourth.nodes[2].prev = Empty
    /\ fourth.tail = 1

\* The number of elements of the deque.
Count(l) == Len(Path(l))

(***************************************************************************)
(* C20: a deque that has not panicked is Empty or NonEmpty(k): head is     *)
(* absent exactly when tail is absent, exactly when it has no elements and *)
(* no node.  A push at either end does not panic and adds one element; a   *)
(* pop at either end, an iterator pull or a turn of the destructor's loop  *)
(* takes one from a non-empty deque, leaving both fields absent exactly    *)
(* when it took the last one, and leaves an empty deque empty; no other    *)
(* step changes the number of elements.                                    *)
(***************************************************************************)
C20_EmptyOrNonEmpty ==
    /\ [](comp = "fourth" /\ ~panic =>
            /\ fourth.head = Empty <=> fourth.tail = Empty
            /\ fourth.head = Empty <=> Count(fourth) = 0
            /\ fourth.head = Empty <=> fourth.nodes = NoCells)
    /\ [][(comp = "fourth" /\ ~panic) =>
            /\ (op' \in {"push_front", "push_back"}
                /\ \E v \in Elems : PushFront(v) \/ PushBack(v)) =>
                   /\ ~panic'
                   /\ Count(fourth') = Count(fourth) + 1
                   /\ fourth'.head # Empty /\ fourth'.tail # Empty
            /\ (op' \in {"pop_front", "pop_back", "next", "next_back", "drop"}
                /\ (PopFront \/ PopBack \/ FourthIntoIterNext \/ FourthIntoIterNextBack
                    \/ FourthDropStep \/ FourthDropEnd)) =>
                   /\ ~panic'
                   /\ Count(fourth') = IF Count(fourth) = 0 THEN 0 ELSE Count(fourth) - 1
                   /\ Count(fourth) = 1 <=>
                         (fourth.head # Empty /\ fourth'.head = Empty /\ fourth'.tail = Empty)
            /\ (~panic' /\ op' \notin {"push_front", "push_back", "pop_front", "pop_back",
                                       "next", "next_back", "drop"}) =>
                   Count(fourth') = Count(fourth)]_vars

\* The only element left has been popped at the back: NonEmpty(1) to Empty.
C20_Witness ==
    /\ comp = "fourth" /\ ~panic
    /\ op = "pop_back" /\ ret = Some(2)
    /\ ghost.want = Some(2)
    /\ fourth = fourth_new

\* The RefMut and the Ref guards on node x that were made and whose destructor
\* has not run.
MutGuards(x) == (IF guards.mut = x THEN 1 ELSE 0) + (IF ghost.leaked = x THEN 1 ELSE 0)
RefGuards(x) == guards.refs[x]

(***************************************************************************)
(* C21: at every instant every node of the deque has either no RefMut      *)
(* guard and any number of Ref guards, or one RefMut guard and no Ref      *)
(* guard, counting the guards peek_front, peek_back, peek_front_mut,       *)
(* peek_back_mut and iter made and whose destructor has not run; the       *)
(* node's borrow flag says which, and a free cell has no guard.            *)
(***************************************************************************)
C21_GuardsExclusive ==
    comp = "fourth" =>
        \A x \in NodeIds :
            /\ MutGuards(x) = 0 \/ (MutGuards(x) = 1 /\ RefGuards(x) = 0)
            /\ fourth.nodes[x].borrow = IF MutGuards(x) > 0 THEN -1 ELSE RefGuards(x)
            /\ fourth.nodes[x].rc = 0 => (MutGuards(x) = 0 /\ RefGuards(x) = 0)

\* An Iter and a peek_front guard share the head node while the RefMut guard
\* of the tail node, leaked, keeps it mutably borrowed.
C21_Witness ==
    /\ comp = "fourth" /\ ~panic
    /\ op = "iter"
    /\ fourth.head # fourth.tail
    /\ guards.refs[fourth.head] = 2
    /\ fourth.nodes[fourth.head].borrow = 2
    /\ ghost.leaked = fourth.tail
    /\ fourth.nodes[fourth.tail].borrow = -1

(***************************************************************************)
(* C22: when no guard of the deque is alive, none was leaked with          *)
(* mem::forget and no call has panicked, every node is unborrowed, so that *)
(* a peek_front_mut or peek_back_mut called then does not panic and, on a  *)
(* non-empty deque, returns the element at its end; this holds after every *)
(* push and pop, whose own borrows are released before they return, and    *)
(* after every guard's destructor.  The peek_front_mut and peek_back_mut   *)
(* calls made without a leak have not panicked, and the guard of one that  *)
(* returned Some holds the node mutably borrowed.                          *)
(***************************************************************************)
C22_GuardsReleased ==
    (comp = "fourth" /\ ~panic /\ ghost.leaks = 0) =>
        /\ guards = NoGuards =>
              /\ \A x \in NodeIds : fourth.nodes[x].borrow = 0
              /\ fourth_peek_front_mut(fourth) =
                    IF fourth.head = Empty THEN Done4(fourth, None)
                    ELSE Done4([fourth EXCEPT !.nodes[fourth.head].borrow = -1],
                               Some(Head(Chain(fourth))))
              /\ ~fourth_peek_back_mut(fourth).panic
              /\ fourth.tail # Empty =>
                    fourth_peek_back_mut(fourth).ret = Some(fourth.nodes[fourth.tail].elem)
        /\ op \in {"peek_front_mut", "peek_back_mut"} =>
              IF ret = None THEN guards = NoGuards /\ fourth = fourth_new
              ELSE guards.mut # Empty /\ fourth.nodes[guards.mut].borrow = -1

\* A RefMut guard of the head was written through and released, and the
\* peek_front_mut that followed returned the value written.
C22_Witness ==
    /\ comp = "fourth" /\ ~panic
    /\ op = "peek_front_mut" /\ ret = Some(2)
    /\ ghost.wrote = [end |-> "front", v |-> 2, seen |-> TRUE]
    /\ ghost.leaks = 0
    /\ guards.mut = fourth.head
    /\ Len(Path(fourth)) = 3

\* The nodes of a List whose head is h, front first.
Nodes3(t, h) == PathFrom(t.nodes, h, MaxShared + 1)

(***************************************************************************)
(* C23: on every persistent list L alive, with head h, tail() makes no     *)
(* node: it adds one list whose head is the node after h and one to that   *)
(* node's count, and the new list's nodes are L's but the first.           *)
(* append(x) makes exactly one node, in a free cell, holding x and linked  *)
(* to the node h itself, adds one to h's count and changes no other node;  *)
(* the new list's nodes are the new node followed by L's own nodes, and    *)
(* the tail() of the new list has the head h, as L has.                    *)
(***************************************************************************)
C23_StructuralSharing ==
    (comp = "third" /\ ~third.drop.on) =>
        \A h \in Links : third.lists[h] > 0 =>
            /\ LET b == third_tail(third, h)
                   k == IF h = Empty THEN Empty ELSE third.nodes[h].next
               IN  /\ b.lists = [third.lists EXCEPT ![k] = @ + 1]
                   /\ \A c \in RcIds :
                         b.nodes[c] = [third.nodes[c] EXCEPT
                                          !.rc = @ + (IF c = k THEN 1 ELSE 0)]
                   /\ h # Empty => Nodes3(b, k) = Tail(Nodes3(third, h))
            /\ RcsLive(third.nodes) < MaxShared =>
                  \A x \in Elems :
                      LET a == third_append(third, h, x)
                          n == NewRc(third.nodes)
                      IN  /\ third.nodes[n].rc = 0
                          /\ a.lists = [third.lists EXCEPT ![n] = 1]
                          /\ a.nodes[n] = [elem |-> x, next |-> h, rc |-> 1]
                          /\ \A c \in RcIds \ {n} :
                                a.nodes[c] = [third.nodes[c] EXCEPT
                                                 !.rc = @ + (IF c = h THEN 1 ELSE 0)]
                          /\ Nodes3(a, n) = << n >> \o Nodes3(third, h)
                          /\ third_tail(a, n).lists = [a.lists EXCEPT ![h] = @ + 1]

\* L.append(x).tail() has been made next to L: both have the second node of
\* the list the append made as their head.
C23_Witness ==
    /\ comp = "third"
    /\ op = "tail" /\ ghost.tails = 1
    /\ \E n, h \in RcIds :
          /\ third.lists[n] = 1 /\ third.lists[h] = 2
          /\ third.nodes[n].next = h
          /\ third.nodes[h].rc = 3
          /\ Nodes3(third, n) = << n >> \o Nodes3(third, h)

\* The handles to node x: the head fields of the List values alive, the
\* destructor's cur_list and the next links of the nodes allocated.
Handles3(t, x) ==
    t.lists[x] + (IF t.drop.on /\ t.drop.cur = x THEN 1 ELSE 0)
    + Cardinality({c \in RcIds : t.nodes[c].rc > 0 /\ t.nodes[c].next = x})

(***************************************************************************)
(* C24: in every state new, append, tail and drop reach on the persistent  *)
(* lists, the destructor's turns included, following next from any        *)
(* allocated node meets no node twice and only allocated nodes; the count  *)
(* of every node is the number of handles to it, that is of List heads, of *)
(* next links of allocated nodes, and the cur_list of a destructor at      *)
(* work; so a node is allocated exactly when some handle points to it, and *)
(* every head field points to an allocated node.                           *)
(***************************************************************************)
C24_CountIsInDegree ==
    comp = "third" =>
        /\ \A x \in RcIds :
              /\ third.nodes[x].rc = Handles3(third, x)
              /\ third.nodes[x].rc = 0 => third.nodes[x] = FreeRc
              /\ third.nodes[x].rc > 0 =>
                    LET p == PathFrom(third.nodes, x, MaxShared + 1)
                    IN  /\ Len(p) <= MaxShared
                        /\ \A i, j \in 1..Len(p) : p[i] = p[j] => i = j
                        /\ \A i \in 1..Len(p) : third.nodes[p[i]].rc > 0
        /\ third.drop.cur # Empty => third.drop.on

\* A list was dropped and its node freed; of the two nodes left, the first is
\* held by one list and the second by another list and by the first node.
C24_Witness ==
    /\ comp = "third"
    /\ op = "drop" /\ ~third.drop.on
    /\ RcsLive(third.nodes) = 2
    /\ \E h, k \in RcIds :
          /\ h # k
          /\ third.nodes[h].next = k
          /\ third.lists[h] = 1 /\ third.nodes[h].rc = 1
          /\ third.lists[k] = 1 /\ third.nodes[k].rc = 2
    /\ \E c \in RcIds : third.nodes[c] = FreeRc

(***************************************************************************)
(* C25: the destructor of one persistent list removes that List value and  *)
(* no other, and none of its steps changes the head(), the elements or the *)
(* nodes of a list that stays alive, nor frees one of those nodes; when it *)
(* returns, every node still allocated is reachable from a list alive, so  *)
(* the nodes only the dropped list reached are freed.                      *)
(***************************************************************************)
C25_DropFrame ==
    [][(comp = "third" /\ (third.drop.on \/ third'.drop.on) /\ third' # third) =>
          /\ IF third.drop.on THEN third'.lists = third.lists
             ELSE \E h \in Links : /\ third.lists[h] > 0
                                   /\ third'.lists = [third.lists EXCEPT ![h] = @ - 1]
          /\ \A g \in Links : third'.lists[g] > 0 =>
                /\ third_head(third', g) = third_head(third, g)
                /\ Elements3(third', g) = Elements3(third, g)
                /\ Nodes3(third', g) = Nodes3(third, g)
                /\ \A i \in 1..Len(Nodes3(third, g)) :
                      third'.nodes[Nodes3(third, g)[i]].rc > 0
          /\ ~third'.drop.on =>
                \A x \in RcIds : third'.nodes[x].rc > 0 =>
                    \E g \in RcIds : /\ third'.lists[g] > 0
                                     /\ \E i \in 1..Len(Nodes3(third', g)) :
                                           Nodes3(third', g)[i] = x]_vars

\* The loop of the destructor has ended on a chain of two nodes: the first is
\* freed, the second is left to the list that has it as its head.
C25_Witness ==
    /\ comp = "third"
    /\ third.drop.on /\ third.drop.cur = Empty
    /\ ghost.walk = 2 /\ ghost.steps = 2 /\ ghost.kept = 1
    /\ RcsLive(third.nodes) = 1
    /\ \E g \in RcIds : third.lists[g] = 1 /\ Elements3(third, g) = << 1 >>

(***************************************************************************)
(* C26: while the destructor of a persistent list is at work, the turns    *)
(* made and the nodes from cur_list on add up to the nodes the chain had,  *)
(* so the loop visits each node once and ends.  In a turn on node x with   *)
(* successor y, y has a count of at least two once its handle is cloned,   *)
(* before x is dropped; the turn frees x exactly when x had a count of     *)
(* one, frees no other node, and leaves y allocated.                       *)
(***************************************************************************)
C26_NoCascade ==
    (comp = "third" /\ third.drop.on) =>
        /\ ghost.steps + Len(Nodes3(third, third.drop.cur)) = ghost.walk
        /\ third.drop.cur # Empty =>
              LET x == third.drop.cur
                  y == third.nodes[x].next
                  held == RcClone3(third.nodes, y)
                  after == third_drop_step(third)
              IN  /\ y # Empty => held[y].rc >= 2
                  /\ y # Empty => after.nodes[y].rc >= 1
                  /\ after.drop = [on |-> TRUE, cur |-> y]
                  /\ \A c \in RcIds \ {x} : after.nodes[c].rc = 0 => third.nodes[c].rc = 0
                  /\ after.nodes[x].rc = 0 <=> third.nodes[x].rc = 1

\* Two turns on a chain of three nodes that no other list holds have freed
\* one node each, and the third node is held by cur_list alone.
C26_Witness ==
    /\ comp = "third"
    /\ third.drop.on /\ third.drop.cur # Empty
    /\ ghost.walk = 3 /\ ghost.steps = 2 /\ ghost.kept = 0
    /\ RcsLive(third.nodes) = 1
    /\ third.nodes[third.drop.cur].rc = 1

(***************************************************************************)
(* C27: in a deque of exactly one element that has not panicked, head and  *)
(* tail are the same node.  While no RefMut guard is alive or leaked,      *)
(* peek_front and peek_back both return that node's element; while no      *)
(* guard at all is alive or leaked, pop_front and pop_back both return it  *)
(* and leave head and tail absent and no node allocated.  A value written  *)
(* through the guard of peek_back_mut or of peek_front_mut is that         *)
(* element, whichever end is asked next, and the peeks made on such a      *)
(* deque returned the element of the one node.                             *)
(***************************************************************************)
C27_SingleElement ==
    (comp = "fourth" /\ ~panic /\ Count(fourth) = 1) =>
        LET x == fourth.head
            e == Some(fourth.nodes[fourth.head].elem)
        IN  /\ x # Empty /\ fourth.tail = x
            /\ (guards.mut = Empty /\ ghost.leaks = 0) =>
                  /\ fourth_peek_front(fourth).ret = e
                  /\ fourth_peek_back(fourth).ret = e
                  /\ fourth_peek_front(fourth).list = fourth_peek_back(fourth).list
            /\ (guards = NoGuards /\ ghost.leaks = 0) =>
                  /\ fourth_pop_front(fourth) = Done4(fourth_new, e)
                  /\ fourth_pop_back(fourth) = Done4(fourth_new, e)
                  /\ fourth_peek_front_mut(fourth) = fourth_peek_back_mut(fourth)
            /\ (ghost.wrote.end # "none" /\ ~ghost.wrote.seen) => e = Some(ghost.wrote.v)
            /\ op \in {"peek_front", "peek_back", "peek_front_mut", "peek_back_mut"} =>
                  ret = IF ghost.wrote.end = "none" THEN e ELSE Some(ghost.wrote.v)

\* 2 was written through the peek_back_mut guard of a one-element deque, and
\* the peek_front that followed returned 2.
C27_Witness ==
    /\ comp = "fourth" /\ ~panic
    /\ Count(fourth) = 1
    /\ op = "peek_front" /\ ret = Some(2)
    /\ ghost.wrote = [end |-> "back", v |-> 2, seen |-> TRUE]
    /\ guards.refs[fourth.tail] = 1
====
